---- MODULE Spec2Model ----
(***************************************************************************)
(* Critical-path scheduling engine of crates/schedule-core: the Schedule   *)
(* (task table, metadata, calendar, custom-calendar flag), its mutators,   *)
(* the forward and backward passes and the working-day calendar.           *)
(*                                                                         *)
(* Representation.  A NaiveDate is the number of days since 1970-01-01     *)
(* (the value the date columns of the table hold).  Option<T> is a         *)
(* sequence of length 0 (None) or 1 (Some).  An f64 of the progress model  *)
(* is an integer count of millionths, so that EPSILON = 1e-6 is 1.         *)
(***************************************************************************)
EXTENDS Integers, Sequences, FiniteSets, TLC

None == <<>>
Some(v) == <<v>>
IsSome(o) == o # <<>>
Unwrap(o) == o[1]

\* let x = v; F(x): v is computed once, and F is given its value.
Bind(v, F(_)) == CHOOSE out \in { F(x) : x \in {v} } : TRUE

(***************************************************************************)
(* Bounds of the explored inputs.                                          *)
(***************************************************************************)
MaxId == 2
MaxDur == 1
MaxPreds == 1
MaxOps == 3
DaySpan == 1

(***************************************************************************)
(* chrono::NaiveDate arithmetic (proleptic Gregorian calendar).            *)
(***************************************************************************)
from_ymd(y, m, d) ==
    LET yy  == IF m <= 2 THEN y - 1 ELSE y
        era == yy \div 400
        yoe == yy - era * 400
        mp  == IF m > 2 THEN m - 3 ELSE m + 9
        doy == (153 * mp + 2) \div 5 + d - 1
        doe == yoe * 365 + yoe \div 4 - yoe \div 100 + doy
    IN  era * 146097 + doe - 719468

civil(date) ==
    LET z   == date + 719468
        era == z \div 146097
        doe == z - era * 146097
        yoe == (doe - doe \div 1460 + doe \div 36524 - doe \div 146096) \div 365
        doy == doe - (365 * yoe + yoe \div 4 - yoe \div 100)
        mp  == (5 * doy + 2) \div 153
        m   == IF mp < 10 THEN mp + 3 ELSE mp - 9
    IN  [year  |-> yoe + era * 400 + (IF m <= 2 THEN 1 ELSE 0),
         month |-> m,
         day   |-> doy - (153 * mp + 2) \div 5 + 1]

year(date) == civil(date).year
month(date) == civil(date).month

\* Weekday::num_days_from_monday: Mon = 0 .. Sun = 6; 1970-01-01 is a Thursday.
weekday(date) == (date + 3) % 7

Mon == 0
Tue == 1
Wed == 2
Thu == 3
Fri == 4
Sat == 5
Sun == 6
ALL_WEEKDAYS == <<Mon, Tue, Wed, Thu, Fri, Sat, Sun>>

(***************************************************************************)
(* WorkCalendar: [holidays: set of dates, non_working_days: set of         *)
(* weekdays].                                                              *)
(***************************************************************************)
RECURSIVE nth_weekday_loop(_, _, _, _, _)
nth_weekday_loop(date, mth, wd, n, count) ==
    IF month(date) # mth THEN None      \* panic!("Could not find ...")
    ELSE IF weekday(date) = wd
         THEN IF count + 1 = n THEN Some(date)
              ELSE nth_weekday_loop(date + 1, mth, wd, n, count + 1)
         ELSE nth_weekday_loop(date + 1, mth, wd, n, count)

nth_weekday(y, mth, wd, n) == Unwrap(nth_weekday_loop(from_ymd(y, mth, 1), mth, wd, n, 0))

RECURSIVE last_weekday_loop(_, _)
last_weekday_loop(date, wd) ==
    IF weekday(date) # wd THEN last_weekday_loop(date - 1, wd) ELSE date

last_weekday(y, mth, wd) ==
    LET first_of_next == IF mth = 12 THEN from_ymd(y + 1, 1, 1) ELSE from_ymd(y, mth + 1, 1)
    IN  last_weekday_loop(first_of_next - 1, wd)

us_holidays(y) ==
    { from_ymd(y, 1, 1),
      nth_weekday(y, 1, Mon, 3),
      nth_weekday(y, 2, Mon, 3),
      last_weekday(y, 5, Mon),
      from_ymd(y, 7, 4),
      nth_weekday(y, 9, Mon, 1),
      nth_weekday(y, 10, Mon, 2),
      from_ymd(y, 11, 11),
      nth_weekday(y, 11, Thu, 4),
      from_ymd(y, 12, 25) }

with_year_range(start_year, end_year) ==
    LET lo == IF start_year <= end_year THEN start_year ELSE end_year
        hi == IF start_year <= end_year THEN end_year ELSE start_year
    IN  [holidays |-> UNION { us_holidays(y) : y \in lo..hi },
         non_working_days |-> {Sat, Sun}]

is_available(cal, date) ==
    date \notin cal.holidays /\ weekday(date) \notin cal.non_working_days

RECURSIVE next_available_loop(_, _)
next_available_loop(cal, current) ==
    IF is_available(cal, current) THEN current ELSE next_available_loop(cal, current + 1)

\* next_available that starts its search on the day itself.
next_available_from_start(cal, from) == next_available_loop(cal, from)

next_available(cal, from) == next_available_loop(cal, from + 1)

RECURSIVE find_next_loop(_, _, _, _)
find_next_loop(cal, current, count, days_ahead) ==
    IF count < days_ahead
    THEN find_next_loop(cal, current + 1,
                        IF is_available(cal, current + 1) THEN count + 1 ELSE count,
                        days_ahead)
    ELSE current

\* find_next_available that counts the day it starts from.
find_next_available_from_start(cal, from, days_ahead) ==
    find_next_loop(cal, from - 1, 0, days_ahead)

find_next_available(cal, from, days_ahead) == find_next_loop(cal, from, 0, days_ahead)

RECURSIVE prev_available_loop(_, _)
prev_available_loop(cal, current) ==
    IF is_available(cal, current) THEN current ELSE prev_available_loop(cal, current - 1)

\* prev_available that starts its search on the day itself.
prev_available_from_start(cal, from) == prev_available_loop(cal, from)

prev_available(cal, from) == prev_available_loop(cal, from - 1)

RECURSIVE find_prev_loop(_, _, _, _)
find_prev_loop(cal, current, count, days_back) ==
    IF count < days_back
    THEN find_prev_loop(cal, current - 1,
                        IF is_available(cal, current - 1) THEN count + 1 ELSE count,
                        days_back)
    ELSE current

\* find_prev_available with the test after the step: one day back at least.
find_prev_available_stepping_first(cal, from, days_back) ==
    find_prev_loop(cal, from - 1, IF is_available(cal, from - 1) THEN 1 ELSE 0, days_back)

find_prev_available(cal, from, days_back) == find_prev_loop(cal, from, 0, days_back)

count_available_days(cal, start, end) ==
    Cardinality({ d \in start..end : is_available(cal, d) })


(***************************************************************************)
(* Task records and the task validator.                                    *)
(***************************************************************************)
PercentComplete == "percent_complete"
ZeroOneHundred == "0_100"
FiftyFifty == "50_50"
TwentyFiveSeventyFive == "25_75"
SeventyFiveTwentyFive == "75_25"
PreDefinedRationale == "pre_defined_rationale"

\* f64 values of the progress model, in millionths.
ONE == 1000000
EPSILON == 1

RationaleItem(id, name, weight, is_complete) ==
    [id |-> id, name |-> name, weight |-> weight, is_complete |-> is_complete]

Task_new(id, name, duration_days) ==
    [id |-> id, name |-> name, duration_days |-> duration_days,
     predecessors |-> <<>>,
     early_start |-> None, early_finish |-> None,
     late_start |-> None, late_finish |-> None,
     baseline_start |-> None, baseline_finish |-> None,
     actual_start |-> None, actual_finish |-> None,
     percent_complete |-> None,
     progress_measurement |-> PercentComplete,
     pre_defined_rationale |-> <<>>,
     schedule_variance_days |-> None, total_float |-> None, is_critical |-> None,
     successors |-> <<>>,
     parent_id |-> None, wbs_code |-> None, task_notes |-> None,
     task_attachments |-> <<>>,
     resource_allocations |-> <<>>]

Abs(x) == IF x < 0 THEN -x ELSE x
approx_equal(a, b) == Abs(a - b) <= EPSILON

RECURSIVE SumWeights(_)
SumWeights(items) ==
    IF items = <<>> THEN 0 ELSE items[1].weight + SumWeights(Tail(items))

\* The rationale loop of validate_task: "" when every item passes, else the
\* first failure in item order (weights are finite in this model).
RECURSIVE rationale_error(_, _)
rationale_error(items, seen_ids) ==
    IF items = <<>> THEN ""
    ELSE IF items[1].weight < 0 THEN "negative rationale weight"
    ELSE IF items[1].id \in seen_ids THEN "duplicate rationale id"
    ELSE rationale_error(Tail(items), seen_ids \cup {items[1].id})

allowed_percent(pm) ==
    CASE pm = ZeroOneHundred -> {0, ONE}
      [] pm = FiftyFifty -> {0, ONE \div 2, ONE}
      [] pm \in {TwentyFiveSeventyFive, SeventyFiveTwentyFive} ->
             {0, ONE \div 4, 3 * (ONE \div 4), ONE}
      [] OTHER -> {}

\* validate_task: "" for Ok(()), else the kind of the TaskValidationError.
validate_task(task) ==
    IF task.duration_days < 0 THEN "negative duration"
    ELSE IF IsSome(task.percent_complete)
            /\ (Unwrap(task.percent_complete) < -EPSILON
                \/ Unwrap(task.percent_complete) > ONE + EPSILON)
    THEN "invalid percent_complete"
    ELSE IF task.progress_measurement \in
                {ZeroOneHundred, FiftyFifty, TwentyFiveSeventyFive, SeventyFiveTwentyFive}
            /\ IsSome(task.percent_complete)
            /\ ~ \E v \in allowed_percent(task.progress_measurement) :
                     approx_equal(v, Unwrap(task.percent_complete))
    THEN "progress_measurement requires percent_complete"
    ELSE IF task.progress_measurement = PreDefinedRationale
            /\ task.pre_defined_rationale = <<>>
    THEN "requires at least one rationale item"
    ELSE IF task.progress_measurement = PreDefinedRationale
            /\ rationale_error(task.pre_defined_rationale, {}) # ""
    THEN rationale_error(task.pre_defined_rationale, {})
    ELSE IF task.progress_measurement = PreDefinedRationale
            /\ ~ approx_equal(SumWeights(task.pre_defined_rationale), ONE)
    THEN "weights must sum to 1.0"
    ELSE IF \E i \in DOMAIN task.resource_allocations :
                LET a == task.resource_allocations[i]
                IN  \/ a.resource_id = ""
                    \/ a.allocation_units < -EPSILON
                    \/ (IsSome(a.cost_rate) /\ Unwrap(a.cost_rate) < -EPSILON)
    THEN "invalid resource allocation"
    ELSE ""

RECURSIVE validate_task_collection_from(_, _, _)
validate_task_collection_from(tasks, i, seen_ids) ==
    IF i > Len(tasks) THEN ""
    ELSE IF tasks[i].id \in seen_ids THEN "duplicate task id"
    ELSE IF validate_task(tasks[i]) # "" THEN validate_task(tasks[i])
    ELSE validate_task_collection_from(tasks, i + 1, seen_ids \cup {tasks[i].id})

validate_task_collection(tasks) == validate_task_collection_from(tasks, 1, {})


(***************************************************************************)
(* The task table (df): a sequence of task rows in insertion order.        *)
(***************************************************************************)
height(df) == Len(df)
ids_of(df) == { df[i].id : i \in DOMAIN df }
id_exists(df, id) == \E i \in DOMAIN df : df[i].id = id
SeqToSet(seq) == { seq[i] : i \in DOMAIN seq }
Max(S) == CHOOSE x \in S : \A y \in S : y <= x
Min(S) == CHOOSE x \in S : \A y \in S : x <= y

\* update_{string,i32,i64,list_i32,list_str,float,bool,date}_column: the
\* value of the column in every row whose id is task_id.
update_column(df, column_name, task_id, new_value) ==
    [ i \in DOMAIN df |->
        IF df[i].id = task_id THEN [ df[i] EXCEPT ![column_name] = new_value ]
        ELSE df[i] ]

\* Schedule::find_task: the first row with the id.
find_task(df, task_id) ==
    IF id_exists(df, task_id)
    THEN Some(df[Min({ i \in DOMAIN df : df[i].id = task_id })])
    ELSE None

\* ScheduleDag::build that resolves a predecessor id naming no row to the
\* first row instead of skipping it.
ScheduleDag_build_defaulting_unknown(df) ==
    LET id_to_index == [ id \in ids_of(df) |-> Max({ i \in DOMAIN df : df[i].id = id }) ]
        index_of(p) == IF p \in ids_of(df) THEN id_to_index[p] ELSE 1
    IN  [ nodes |-> DOMAIN df,
          task  |-> [ i \in DOMAIN df |-> df[i].id ],
          edges |-> UNION { { <<index_of(p), id_to_index[df[i].id]>> :
                                p \in SeqToSet(df[i].predecessors) } :
                            i \in DOMAIN df },
          id_to_index |-> id_to_index,
          durations |-> [ id \in ids_of(df) |-> df[id_to_index[id]].duration_days ] ]

(***************************************************************************)
(* ScheduleDag::build: a node per row, an edge pred -> task for every      *)
(* predecessor entry that names a row of the table.  A later row with the  *)
(* same id replaces the earlier one in id_to_index and durations.          *)
(***************************************************************************)
ScheduleDag_build(df) ==
    LET id_to_index == [ id \in ids_of(df) |-> Max({ i \in DOMAIN df : df[i].id = id }) ]
    IN  [ nodes |-> DOMAIN df,
          task  |-> [ i \in DOMAIN df |-> df[i].id ],
          edges |-> UNION { { <<id_to_index[p], id_to_index[df[i].id]>> :
                                p \in SeqToSet(df[i].predecessors) \cap ids_of(df) } :
                            i \in DOMAIN df },
          id_to_index |-> id_to_index,
          durations |-> [ id \in ids_of(df) |-> df[id_to_index[id]].duration_days ] ]

incoming(dag, v) == { e[1] : e \in { e \in dag.edges : e[2] = v } }
outgoing(dag, u) == { e[2] : e \in { e \in dag.edges : e[1] = u } }

\* petgraph::algo::toposort: Some(order) with every edge going forward in
\* order, None when the graph has a cycle (a self-loop included).
RECURSIVE toposort_from(_, _, _)
toposort_from(dag, remaining, order) ==
    IF remaining = {} THEN Some(order)
    ELSE Bind({ v \in remaining : incoming(dag, v) \cap remaining = {} },
              LAMBDA ready :
                  IF ready = {} THEN None
                  ELSE toposort_from(dag, remaining \ {Min(ready)},
                                     Append(order, Min(ready))))

toposort(dag) == toposort_from(dag, dag.nodes, <<>>)

Reverse(seq) == [ i \in DOMAIN seq |-> seq[Len(seq) + 1 - i] ]

\* HashMap::insert
Insert(map, k, v) == (k :> v) @@ map
EmptyMap == << >>

(***************************************************************************)
(* calculations::forward_pass::ForwardPass::execute (section 4.4): the     *)
(* early dates of every node, in topological order.                        *)
(***************************************************************************)
RECURSIVE forward_loop(_, _, _, _, _)
forward_loop(dag, cal, project_start, order, early) ==
    IF order = <<>> THEN early
    ELSE LET node == order[1]
             task_id == dag.task[node]
             pred_finishes == { early[dag.task[p]][2] : p \in incoming(dag, node) }
             es == IF incoming(dag, node) = {} THEN project_start
                   ELSE next_available(cal, Max(pred_finishes))
             ef(start) == find_next_available(cal, start, dag.durations[task_id])
         IN  Bind(es, LAMBDA start :
               Bind(Insert(early, task_id, <<start, ef(start)>>), LAMBDA next :
                 forward_loop(dag, cal, project_start, Tail(order), next)))

\* [ok, results]: results maps a task id to <<early_start, early_finish>>.
ForwardPass_execute(df, cal, project_start) ==
    Bind(ScheduleDag_build(df), LAMBDA dag :
      Bind(toposort(dag), LAMBDA order :
        IF order = None THEN [ok |-> FALSE, results |-> EmptyMap]
        ELSE [ok |-> TRUE,
              results |-> forward_loop(dag, cal, project_start, Unwrap(order),
                                       EmptyMap)]))

(***************************************************************************)
(* calculations::backward_pass::BackwardPass::execute.                     *)
(***************************************************************************)
RECURSIVE backward_loop(_, _, _, _, _)
backward_loop(dag, cal, project_end, order, late) ==
    IF order = <<>> THEN late
    ELSE LET node == order[1]
             task_id == dag.task[node]
             known == { s \in outgoing(dag, node) : dag.task[s] \in DOMAIN late }
             prevs == { prev_available(cal, late[dag.task[s]][1]) : s \in known }
             lf == IF known = {} THEN project_end
                   ELSE Bind(Min(prevs), LAMBDA earliest :
                          IF earliest < project_end THEN earliest ELSE project_end)
             ls(finish) == find_prev_available(cal, finish, dag.durations[task_id])
         IN  Bind(lf, LAMBDA finish :
               Bind(Insert(late, task_id, <<ls(finish), finish>>), LAMBDA next :
                 backward_loop(dag, cal, project_end, Tail(order), next)))

\* BackwardPass::execute without order.reverse(): the nodes in topological
\* order, predecessors first.
BackwardPass_execute_predecessors_first(df, cal, project_end) ==
    Bind(ScheduleDag_build(df), LAMBDA dag :
      Bind(toposort(dag), LAMBDA order :
        IF order = None THEN [ok |-> FALSE, results |-> EmptyMap]
        ELSE [ok |-> TRUE,
              results |-> backward_loop(dag, cal, project_end, Unwrap(order),
                                        EmptyMap)]))

\* [ok, results]: results maps a task id to <<late_start, late_finish>>.
BackwardPass_execute(df, cal, project_end) ==
    Bind(ScheduleDag_build(df), LAMBDA dag :
      Bind(toposort(dag), LAMBDA order :
        IF order = None THEN [ok |-> FALSE, results |-> EmptyMap]
        ELSE [ok |-> TRUE,
              results |-> backward_loop(dag, cal, project_end, Reverse(Unwrap(order)),
                                        EmptyMap)]))


(***************************************************************************)
(* Schedule: self = [df, metadata, calendar, calendar_is_custom].  Every   *)
(* operation yields [self, err, project_end, required_finish]: the         *)
(* Schedule it leaves behind (also when it fails part-way) and the error   *)
(* it returns ("" for Ok); value is the bool of delete_task's Ok.          *)
(***************************************************************************)
Ok(self) ==
    [self |-> self, err |-> "", project_end |-> 0, required_finish |-> 0, value |-> FALSE]
OkValue(self, v) ==
    [self |-> self, err |-> "", project_end |-> 0, required_finish |-> 0, value |-> v]
Err(self, e) ==
    [self |-> self, err |-> e, project_end |-> 0, required_finish |-> 0, value |-> FALSE]
ErrFinish(self, e, pe, rf) ==
    [self |-> self, err |-> e, project_end |-> pe, required_finish |-> rf, value |-> FALSE]

\* The ? operator: r's error returned as it is, else Step on the Schedule
\* r left behind.
Then(r, Step(_)) == Bind(r, LAMBDA x : IF x.err # "" THEN x ELSE Step(x.self))

CycleError == "Cycle detected in schedule DAG"
HorizonError == "project_end_date precedes schedule finish"
StartEndError == "project_end_date must be on or after project_start_date"
NotFoundError == "task not found"
StartAfterEnd == "StartAfterEnd"
EndPrecedesScheduleFinish == "EndPrecedesScheduleFinish"

ScheduleMetadata_default ==
    [project_name |-> "New Project", project_description |-> "No description",
     project_start_date |-> from_ymd(2025, 1, 1),
     project_end_date |-> from_ymd(2025, 12, 31)]

calendar_for_metadata(metadata) ==
    with_year_range(year(metadata.project_start_date), year(metadata.project_end_date))

from_parts(metadata, calendar, calendar_is_custom) ==
    [df |-> <<>>, metadata |-> metadata, calendar |-> calendar,
     calendar_is_custom |-> calendar_is_custom]

Schedule_new == from_parts(ScheduleMetadata_default,
                           calendar_for_metadata(ScheduleMetadata_default), FALSE)

new_with_metadata(metadata) == from_parts(metadata, calendar_for_metadata(metadata), FALSE)

new_with_year_range(start_year, end_year) ==
    new_with_metadata([ScheduleMetadata_default EXCEPT
                          !.project_start_date = from_ymd(start_year, 1, 1),
                          !.project_end_date = from_ymd(end_year, 12, 31)])

new_with_metadata_and_calendar(metadata, calendar) == from_parts(metadata, calendar, TRUE)

\* The latest non-null early_finish of the table, None when there is none.
latest_early_finish(df) ==
    LET finishes == { Unwrap(df[i].early_finish) :
                        i \in { i \in DOMAIN df : IsSome(df[i].early_finish) } }
    IN  IF finishes = {} THEN None ELSE Some(Max(finishes))

validate_metadata_dates(metadata) ==
    IF metadata.project_start_date > metadata.project_end_date THEN StartAfterEnd ELSE ""

validate_schedule_finish_against_metadata(self, metadata) ==
    IF height(self.df) = 0 THEN ""
    ELSE IF /\ IsSome(latest_early_finish(self.df))
            /\ Unwrap(latest_early_finish(self.df)) > metadata.project_end_date
    THEN EndPrecedesScheduleFinish
    ELSE ""

\* validate_metadata without the comparison against the stored finishes.
validate_metadata_dates_only(self, metadata) == validate_metadata_dates(metadata)

validate_metadata(self, metadata) ==
    IF validate_metadata_dates(metadata) # "" THEN validate_metadata_dates(metadata)
    ELSE validate_schedule_finish_against_metadata(self, metadata)

\* apply_metadata that regenerates the calendar whatever calendar_is_custom
\* holds.
apply_metadata_regenerating(self, metadata) ==
    [self EXCEPT !.metadata = metadata,
                 !.calendar = calendar_for_metadata(metadata)]

apply_metadata(self, metadata) ==
    [self EXCEPT !.metadata = metadata,
                 !.calendar = IF ~self.calendar_is_custom
                              THEN calendar_for_metadata(metadata)
                              ELSE self.calendar]

set_metadata(self, metadata) ==
    LET e == validate_metadata(self, metadata)
    IN  IF e = StartAfterEnd THEN Err(self, e)
        ELSE IF e = EndPrecedesScheduleFinish
        THEN ErrFinish(self, e, metadata.project_end_date,
                       Unwrap(latest_early_finish(self.df)))
        ELSE Ok(apply_metadata(self, metadata))

set_project_start_date(self, date) ==
    set_metadata(self, [self.metadata EXCEPT !.project_start_date = date])

set_project_end_date(self, date) ==
    set_metadata(self, [self.metadata EXCEPT !.project_end_date = date])

set_project_dates(self, start, end) ==
    set_metadata(self, [self.metadata EXCEPT !.project_start_date = start,
                                             !.project_end_date = end])

\* working_days_diff in calendar days.
working_days_diff_in_calendar_days(cal, baseline, actual) == actual - baseline

working_days_diff(cal, baseline, actual) ==
    IF baseline = actual THEN 0
    ELSE IF actual > baseline THEN count_available_days(cal, baseline, actual) - 1
    ELSE -(count_available_days(cal, actual, baseline) - 1)

\* set_schedule_variance that adds the difference to the stored variance.
set_schedule_variance_accumulating(self) ==
    [self EXCEPT !.df =
        [ i \in DOMAIN self.df |->
            LET t == self.df[i]
                stored == IF IsSome(t.schedule_variance_days)
                          THEN Unwrap(t.schedule_variance_days) ELSE 0
            IN  [t EXCEPT !.schedule_variance_days =
                    IF IsSome(t.baseline_finish) /\ IsSome(t.actual_finish)
                    THEN Some(stored + working_days_diff(self.calendar,
                                                         Unwrap(t.baseline_finish),
                                                         Unwrap(t.actual_finish)))
                    ELSE IF IsSome(t.baseline_start) /\ IsSome(t.actual_start)
                    THEN Some(stored + working_days_diff(self.calendar,
                                                         Unwrap(t.baseline_start),
                                                         Unwrap(t.actual_start)))
                    ELSE None] ]]

set_schedule_variance(self) ==
    [self EXCEPT !.df =
        [ i \in DOMAIN self.df |->
            LET t == self.df[i]
            IN  [t EXCEPT !.schedule_variance_days =
                    IF IsSome(t.baseline_finish) /\ IsSome(t.actual_finish)
                    THEN Some(working_days_diff(self.calendar, Unwrap(t.baseline_finish),
                                                Unwrap(t.actual_finish)))
                    ELSE IF IsSome(t.baseline_start) /\ IsSome(t.actual_start)
                    THEN Some(working_days_diff(self.calendar, Unwrap(t.baseline_start),
                                                Unwrap(t.actual_start)))
                    ELSE None] ]]

\* The ascending, duplicate-free sequence of the elements of a set
\* (sort_unstable followed by dedup).
RECURSIVE SortedSeq(_)
SortedSeq(S) == IF S = {} THEN <<>> ELSE <<Min(S)>> \o SortedSeq(S \ {Min(S)})

\* set_successors_column that fills only the successors lists found empty.
set_successors_column_keeping_stored(self) ==
    [self EXCEPT !.df =
        [ i \in DOMAIN self.df |->
            [self.df[i] EXCEPT !.successors =
                IF self.df[i].successors # <<>> THEN self.df[i].successors
                ELSE SortedSeq({ self.df[j].id :
                                   j \in { j \in DOMAIN self.df :
                                             self.df[i].id \in SeqToSet(self.df[j].predecessors) } })] ]]

set_successors_column(self) ==
    [self EXCEPT !.df =
        [ i \in DOMAIN self.df |->
            [self.df[i] EXCEPT !.successors =
                SortedSeq({ self.df[j].id :
                              j \in { j \in DOMAIN self.df :
                                        self.df[i].id \in SeqToSet(self.df[j].predecessors) } })] ]]

\* validate_project_horizon without the comparison of the latest finish.
validate_project_horizon_dates_only(self) ==
    IF self.metadata.project_start_date > self.metadata.project_end_date
    THEN Err(self, StartEndError)
    ELSE Ok(self)

validate_project_horizon(self) ==
    IF self.metadata.project_start_date > self.metadata.project_end_date
    THEN Err(self, StartEndError)
    ELSE IF /\ IsSome(latest_early_finish(self.df))
            /\ Unwrap(latest_early_finish(self.df)) > self.metadata.project_end_date
    THEN ErrFinish(self, HorizonError, self.metadata.project_end_date,
                   Unwrap(latest_early_finish(self.df)))
    ELSE Ok(self)


\* forward_pass that computes every row the way it computes a row the
\* engine did not cover.
forward_pass_without_engine_dates(self) ==
    IF height(self.df) = 0 THEN Ok(self)
    ELSE Bind(ForwardPass_execute(self.df, self.calendar,
                                  self.metadata.project_start_date),
              LAMBDA engine :
         LET results == engine.results
             project_start == self.metadata.project_start_date
             fallback(t) ==
                 LET known == { results[p][2] :
                                  p \in SeqToSet(t.predecessors) \cap DOMAIN results }
                     es == IF t.predecessors = <<>> THEN project_start
                           ELSE next_available(self.calendar,
                                    IF known = {} THEN project_start ELSE Max(known))
                 IN  <<es, find_next_available(self.calendar, es, t.duration_days)>>
         IN  IF ~engine.ok THEN Err(self, CycleError)
             ELSE Ok([self EXCEPT !.df =
                        [ i \in DOMAIN self.df |->
                            [self.df[i] EXCEPT !.early_start = Some(fallback(self.df[i])[1]),
                                               !.early_finish = Some(fallback(self.df[i])[2])] ]]))

\* Schedule::forward_pass: early_start / early_finish of every row.
forward_pass(self) ==
    IF height(self.df) = 0 THEN Ok(self)
    ELSE Bind(ForwardPass_execute(self.df, self.calendar,
                                  self.metadata.project_start_date),
              LAMBDA engine :
         LET results == engine.results
             project_start == self.metadata.project_start_date
             fallback(t) ==
                 LET known == { results[p][2] :
                                  p \in SeqToSet(t.predecessors) \cap DOMAIN results }
                     es == IF t.predecessors = <<>> THEN project_start
                           ELSE next_available(self.calendar,
                                    IF known = {} THEN project_start ELSE Max(known))
                 IN  <<es, find_next_available(self.calendar, es, t.duration_days)>>
             dates(t) == IF t.id \in DOMAIN results THEN results[t.id] ELSE fallback(t)
         IN  IF ~engine.ok THEN Err(self, CycleError)
             ELSE Ok([self EXCEPT !.df =
                        [ i \in DOMAIN self.df |->
                            [self.df[i] EXCEPT !.early_start = Some(dates(self.df[i])[1]),
                                               !.early_finish = Some(dates(self.df[i])[2])] ]]))

\* The date columns hold days since 1970-01-01; a null reads as 0 in the
\* total_float computation.
days_or_zero(o) == IF IsSome(o) THEN Unwrap(o) ELSE 0

\* Schedule::backward_pass: late_start / late_finish, total_float, is_critical.
backward_pass(self) ==
    IF height(self.df) = 0 THEN Ok(self)
    ELSE Bind(BackwardPass_execute(self.df, self.calendar,
                                   self.metadata.project_end_date),
              LAMBDA engine :
         LET results == engine.results
             ls(t) == IF t.id \in DOMAIN results THEN Some(results[t.id][1])
                      ELSE t.early_start
             lf(t) == IF t.id \in DOMAIN results THEN Some(results[t.id][2])
                      ELSE t.early_finish
             es_map(id) == LET rows == { i \in DOMAIN self.df :
                                           self.df[i].id = id /\ IsSome(self.df[i].early_start) }
                           IN  IF rows = {} THEN 0
                               ELSE Unwrap(self.df[Max(rows)].early_start)
             tf(t) == days_or_zero(ls(t)) - es_map(t.id)
         IN  IF ~engine.ok THEN Err(self, CycleError)
             ELSE Ok([self EXCEPT !.df =
                        [ i \in DOMAIN self.df |->
                            [self.df[i] EXCEPT !.late_start = ls(self.df[i]),
                                               !.late_finish = lf(self.df[i]),
                                               !.total_float = Some(tf(self.df[i])),
                                               !.is_critical = Some(tf(self.df[i]) = 0)] ]]))

\* The comparator without the start dates: by id alone.
pair_le_by_id(a, b) == a[2] <= b[2]

\* critical_path.sort_by(start, then id) as a stable insertion sort over the
\* (start, id) pairs pushed in row order.
pair_le(a, b) == a[1] < b[1] \/ (a[1] = b[1] /\ a[2] <= b[2])

RECURSIVE insert_pair(_, _)
insert_pair(sorted, p) ==
    IF sorted = <<>> THEN <<p>>
    ELSE IF pair_le(sorted[1], p) THEN <<sorted[1]>> \o insert_pair(Tail(sorted), p)
    ELSE <<p>> \o sorted

RECURSIVE sort_pairs(_)
sort_pairs(pairs) ==
    IF pairs = <<>> THEN <<>>
    ELSE insert_pair(sort_pairs(SubSeq(pairs, 1, Len(pairs) - 1)), pairs[Len(pairs)])

\* The (start, id) pairs of the rows whose total_float is 0, in row order.
RECURSIVE critical_pairs(_, _)
critical_pairs(df, project_start_date) ==
    IF df = <<>> THEN <<>>
    ELSE LET t == df[1]
         IN  (IF IsSome(t.total_float) /\ Unwrap(t.total_float) = 0
              THEN << <<IF IsSome(t.early_start) THEN Unwrap(t.early_start)
                        ELSE project_start_date, t.id>> >>
              ELSE <<>>) \o critical_pairs(Tail(df), project_start_date)

\* The RefreshSummary computed at the end of refresh.
RefreshSummary(self) ==
    LET df == self.df
        variances == [ i \in DOMAIN df |-> df[i].schedule_variance_days ]
        sorted == sort_pairs(critical_pairs(df, self.metadata.project_start_date))
    IN  [task_count |-> height(df),
         critical_count |-> Cardinality({ i \in DOMAIN df : df[i].is_critical = Some(TRUE) }),
         critical_path |-> [ k \in DOMAIN sorted |-> sorted[k][2] ],
         latest_finish |-> latest_early_finish(df),
         positive_variance_count |->
             Cardinality({ i \in DOMAIN df : IsSome(variances[i]) /\ Unwrap(variances[i]) > 0 }),
         negative_variance_count |->
             Cardinality({ i \in DOMAIN df : IsSome(variances[i]) /\ Unwrap(variances[i]) < 0 }),
         on_track_variance_count |->
             Cardinality({ i \in DOMAIN df : IsSome(variances[i]) /\ Unwrap(variances[i]) = 0 })]

\* refresh with the horizon check after the backward pass.
refresh_checking_horizon_last(self) ==
    IF self.metadata.project_start_date > self.metadata.project_end_date
    THEN Err(self, StartEndError)
    ELSE Then(forward_pass(self), LAMBDA s1 :
           Then(backward_pass(s1), LAMBDA s2 :
             Then(validate_project_horizon(s2), LAMBDA s3 :
               Bind(set_schedule_variance(s3), LAMBDA s4 :
                 Bind(set_successors_column(s4), LAMBDA s5 :
                   OkValue(s5, RefreshSummary(s5)))))))

\* Schedule::refresh, the pipeline; the summary it returns is computed from
\* the Schedule it leaves behind.
refresh(self) ==
    IF self.metadata.project_start_date > self.metadata.project_end_date
    THEN Err(self, StartEndError)
    ELSE Then(forward_pass(self), LAMBDA s1 :
           Then(validate_project_horizon(s1), LAMBDA s2 :
             Then(backward_pass(s2), LAMBDA s3 :
               Bind(set_schedule_variance(s3), LAMBDA s4 :
                 Bind(set_successors_column(s4), LAMBDA s5 :
                   OkValue(s5, RefreshSummary(s5)))))))

\* update_duration_column without the backward pass.
update_duration_column_forward_only(self, task_id, new_duration_days) ==
    Bind([self EXCEPT !.df = update_column(self.df, "duration_days", task_id,
                                           new_duration_days)],
         LAMBDA updated : forward_pass(updated))

update_duration_column(self, task_id, new_duration_days) ==
    Bind([self EXCEPT !.df = update_column(self.df, "duration_days", task_id,
                                           new_duration_days)],
         LAMBDA updated :
             Then(forward_pass(updated), LAMBDA s1 : backward_pass(s1)))

update_task_duration(self, task_id, new_duration_days) ==
    update_duration_column(self, task_id, new_duration_days)

\* predecessors: None, or Some(list).
upsert_task(self, id, name, duration_days, predecessors) ==
    IF duration_days < 0 THEN Err(self, "negative duration")
    ELSE IF id_exists(self.df, id)
    THEN LET named == update_column(self.df, "name", id, name)
             linked == IF IsSome(predecessors)
                       THEN update_column(named, "predecessors", id, Unwrap(predecessors))
                       ELSE named
         IN  update_duration_column([self EXCEPT !.df = linked], id, duration_days)
    ELSE LET task == [Task_new(id, name, duration_days) EXCEPT
                         !.predecessors = IF IsSome(predecessors) THEN Unwrap(predecessors)
                                          ELSE <<>>]
         IN  IF validate_task(task) # "" THEN Err(self, validate_task(task))
             ELSE Ok([self EXCEPT !.df = Append(self.df, task)])

\* The columns upsert_task_record writes only when the record carries a
\* value: Some(_) for the optional ones, a non-empty list for the two lists.
OptionalColumns ==
    << "early_start", "early_finish", "late_start", "late_finish",
       "baseline_start", "baseline_finish", "actual_start", "actual_finish",
       "percent_complete", "schedule_variance_days", "total_float", "is_critical",
       "successors", "parent_id", "wbs_code", "task_notes", "task_attachments" >>

RECURSIVE write_optional_columns(_, _, _)
write_optional_columns(df, task, k) ==
    IF k > Len(OptionalColumns) THEN df
    ELSE Bind(IF task[OptionalColumns[k]] # <<>>
              THEN update_column(df, OptionalColumns[k], task.id, task[OptionalColumns[k]])
              ELSE df,
              LAMBDA written : write_optional_columns(written, task, k + 1))

\* upsert_task_record without the id_exists branch: every valid record is
\* stacked under the table.
upsert_task_record_always_stacks(self, task) ==
    IF validate_task(task) # "" THEN Err(self, validate_task(task))
    ELSE Ok([self EXCEPT !.df = Append(self.df, task)])

upsert_task_record(self, task) ==
    IF validate_task(task) # "" THEN Err(self, validate_task(task))
    ELSE IF id_exists(self.df, task.id)
    THEN LET named == update_column(self.df, "name", task.id, task.name)
             linked == update_column(named, "predecessors", task.id, task.predecessors)
         IN  Then(update_duration_column([self EXCEPT !.df = linked], task.id,
                                         task.duration_days),
               LAMBDA timed :
                 Bind(write_optional_columns(timed.df, task, 1), LAMBDA opt :
                   Bind(update_column(opt, "progress_measurement", task.id,
                                      task.progress_measurement), LAMBDA prog :
                     Bind(update_column(prog, "pre_defined_rationale", task.id,
                                        task.pre_defined_rationale), LAMBDA rat :
                       Ok([timed EXCEPT !.df =
                             update_column(rat, "resource_allocations", task.id,
                                           task.resource_allocations)])))))
    ELSE Ok([self EXCEPT !.df = Append(self.df, task)])


(***************************************************************************)
(* Rationale templates (section 6.6): ids from 1, is_complete = false.     *)
(***************************************************************************)
Templates == {"fifty_fifty", "twenty_five_seventy_five", "seventy_five_twenty_five"}

template_items(template) ==
    CASE template = "fifty_fifty" ->
             << RationaleItem(1, "first", ONE \div 2, FALSE),
                RationaleItem(2, "second", ONE \div 2, FALSE) >>
      [] template = "twenty_five_seventy_five" ->
             << RationaleItem(1, "first", ONE \div 4, FALSE),
                RationaleItem(2, "second", 3 * (ONE \div 4), FALSE) >>
      [] template = "seventy_five_twenty_five" ->
             << RationaleItem(1, "first", 3 * (ONE \div 4), FALSE),
                RationaleItem(2, "second", ONE \div 4, FALSE) >>

\* Task::apply_rationale_template: the task with the template's items.
Task_apply_rationale_template(task, template) ==
    [task EXCEPT !.progress_measurement = PreDefinedRationale,
                 !.pre_defined_rationale = template_items(template)]

\* apply_rationale_template that applies the template to a new task of the
\* found one's name and duration in place of the found task.
apply_rationale_template_to_new_task(self, task_id, template) ==
    IF find_task(self.df, task_id) = None THEN Err(self, NotFoundError)
    ELSE Bind(Task_apply_rationale_template(
                  Task_new(task_id, Unwrap(find_task(self.df, task_id)).name,
                           Unwrap(find_task(self.df, task_id)).duration_days),
                  template),
              LAMBDA task :
                  IF validate_task(task) # "" THEN Err(self, validate_task(task))
                  ELSE upsert_task_record(self, task))

apply_rationale_template(self, task_id, template) ==
    IF find_task(self.df, task_id) = None THEN Err(self, NotFoundError)
    ELSE Bind(Task_apply_rationale_template(Unwrap(find_task(self.df, task_id)), template),
              LAMBDA task :
                  IF validate_task(task) # "" THEN Err(self, validate_task(task))
                  ELSE upsert_task_record(self, task))

RECURSIVE upsert_all(_, _)
upsert_all(self, tasks) ==
    IF tasks = <<>> THEN Ok(self)
    ELSE Then(upsert_task_record(self, tasks[1]),
              LAMBDA s1 : upsert_all(s1, Tail(tasks)))

Retain(seq, x) == SelectSeq(seq, LAMBDA y : y # x)

delete_task(self, task_id) ==
    IF height(self.df) = 0 THEN OkValue(self, FALSE)
    ELSE LET kept == SelectSeq(self.df, LAMBDA t : t.id # task_id)
             tasks == [ i \in DOMAIN kept |->
                          [kept[i] EXCEPT !.predecessors = Retain(kept[i].predecessors, task_id),
                                          !.successors = Retain(kept[i].successors, task_id)] ]
         IN  IF ~id_exists(self.df, task_id) THEN OkValue(self, FALSE)
             ELSE Bind(tasks, LAMBDA list :
                    Then(upsert_all([self EXCEPT !.df = <<>>], list), LAMBDA rebuilt :
                      Then(refresh(rebuilt), LAMBDA refreshed :
                        OkValue(refreshed, TRUE))))

set_calendar(self, calendar) ==
    Bind([self EXCEPT !.calendar = calendar, !.calendar_is_custom = TRUE], LAMBDA s1 :
      IF height(s1.df) = 0 THEN Ok(s1)
      ELSE Then(refresh(s1), LAMBDA s2 : Ok(s2)))

\* reset_calendar_to_default that clears the flag and keeps the calendar.
reset_calendar_to_default_keeping_calendar(self) ==
    Bind([self EXCEPT !.calendar_is_custom = FALSE], LAMBDA s1 :
      IF height(s1.df) = 0 THEN Ok(s1)
      ELSE Then(refresh(s1), LAMBDA s2 : Ok(s2)))

reset_calendar_to_default(self) ==
    Bind([self EXCEPT !.calendar = calendar_for_metadata(self.metadata),
                      !.calendar_is_custom = FALSE], LAMBDA s1 :
      IF height(s1.df) = 0 THEN Ok(s1)
      ELSE Then(refresh(s1), LAMBDA s2 : Ok(s2)))

\* WorkCalendar::from_config of a config with working_days and holidays;
\* an empty working-day list panics and builds no calendar.
from_config(working_days, holidays) ==
    [holidays |-> SeqToSet(holidays),
     non_working_days |-> SeqToSet(ALL_WEEKDAYS) \ SeqToSet(working_days)]


(***************************************************************************)
(* The state machine: one Schedule and the calls a client makes on it.     *)
(* ret is the last call and what it returned; file is the file the         *)
(* persistence functions write and read; http is the lock of the HTTP      *)
(* server around the Schedule and the requests it is serving; run is the   *)
(* call in progress, where a call is followed through its loop.            *)
(***************************************************************************)
VARIABLES df, metadata, calendar, calendar_is_custom, ret, nops, file, http, run

vars == <<df, metadata, calendar, calendar_is_custom, ret, nops, file, http, run>>

\* No file has been written.
NoFile == [format |-> "none"]

\* No server is running.
NoServer == [writer |-> 0, requests |-> <<>>]

\* No call is in progress.
NoCall == [pc |-> "idle"]

Self == [df |-> df, metadata |-> metadata, calendar |-> calendar,
         calendar_is_custom |-> calendar_is_custom]

\* Inputs.
TaskIds == 1..MaxId
Durations == -1..MaxDur
PredLists == UNION { [1..n -> TaskIds] : n \in 0..MaxPreds }
DateInputs == { from_ymd(2025, 1, 1) + k : k \in 0..DaySpan }
MetadataInputs ==
    { [ScheduleMetadata_default EXCEPT !.project_start_date = s, !.project_end_date = e] :
        s \in DateInputs, e \in DateInputs }
StartYears == {2025}
EndYears == {2024, 2025}
CalendarInputs ==
    { from_config(<<Mon, Tue, Wed, Thu, Sat>>, <<from_ymd(2025, 1, 2)>>),
      from_config(ALL_WEEKDAYS, <<>>) }
\* Records as a client builds them: Task::new, then predecessors, or then
\* a progress method with a percent_complete.
ProgressInputs ==
    { <<PercentComplete, Some(3 * (ONE \div 10))>>, <<ZeroOneHundred, None>>,
      <<FiftyFifty, Some(ONE \div 4)>> }
TaskInputs ==
    { [Task_new(id, "a", d) EXCEPT !.predecessors = p] :
        id \in TaskIds, d \in Durations, p \in PredLists }
    \cup
    { [Task_new(id, "a", MaxDur) EXCEPT !.progress_measurement = pp[1],
                                         !.percent_complete = pp[2]] :
        id \in TaskIds, pp \in ProgressInputs }

\* What a client sees of a call: the operation, its task id (0 when it takes
\* none), its arguments (None when it takes none) and what it returned.
Call(op, id, arg, r) ==
    [op |-> op, id |-> id, arg |-> arg, err |-> r.err, project_end |-> r.project_end,
     required_finish |-> r.required_finish, value |-> r.value]

\* A call: the Schedule it leaves behind, and what it returned.
Returns(op, id, arg, r) ==
    /\ df' = r.self.df
    /\ metadata' = r.self.metadata
    /\ calendar' = r.self.calendar
    /\ calendar_is_custom' = r.self.calendar_is_custom
    /\ ret' = Call(op, id, arg, r)
    /\ nops' = nops + 1
    /\ UNCHANGED <<file, http, run>>

Constructed ==
    {Schedule_new}
    \cup { new_with_metadata(md) : md \in MetadataInputs }
    \cup { new_with_year_range(y0, y1) : y0 \in StartYears, y1 \in EndYears }
    \cup { new_with_metadata_and_calendar(ScheduleMetadata_default, cal) :
             cal \in CalendarInputs }

Init ==
    /\ \E s \in Constructed :
          /\ df = s.df
          /\ metadata = s.metadata
          /\ calendar = s.calendar
          /\ calendar_is_custom = s.calendar_is_custom
    /\ ret = Call("new", 0, None, Ok(Self))
    /\ nops = 0
    /\ file = NoFile
    /\ http = NoServer
    /\ run = NoCall

SetMetadata ==
    /\ nops < MaxOps
    /\ \E md \in MetadataInputs : Returns("set_metadata", 0, Some(md), set_metadata(Self, md))

SetProjectStartDate ==
    /\ nops < MaxOps
    /\ \E d \in DateInputs :
          Returns("set_project_start_date", 0, Some(d), set_project_start_date(Self, d))

SetProjectEndDate ==
    /\ nops < MaxOps
    /\ \E d \in DateInputs :
          Returns("set_project_end_date", 0, Some(d), set_project_end_date(Self, d))

SetProjectDates ==
    /\ nops < MaxOps
    /\ \E s \in DateInputs, e \in DateInputs :
          Returns("set_project_dates", 0, Some(<<s, e>>), set_project_dates(Self, s, e))

UpsertTask ==
    /\ nops < MaxOps
    /\ \E id \in TaskIds, d \in Durations,
          p \in {None} \cup { Some(l) : l \in PredLists } :
          Returns("upsert_task", id,
                  Some([name |-> "b", duration_days |-> d, predecessors |-> p]),
                  upsert_task(Self, id, "b", d, p))

UpsertTaskRecord ==
    /\ nops < MaxOps
    /\ \E task \in TaskInputs :
          Returns("upsert_task_record", task.id, Some(task), upsert_task_record(Self, task))

ApplyRationaleTemplate ==
    /\ nops < MaxOps
    /\ \E id \in TaskIds, template \in Templates :
          Returns("apply_rationale_template", id, Some(template),
                  apply_rationale_template(Self, id, template))

UpdateTaskDuration ==
    /\ nops < MaxOps
    /\ \E id \in TaskIds, d \in Durations :
          Returns("update_task_duration", id, Some(d), update_task_duration(Self, id, d))

DeleteTask ==
    /\ nops < MaxOps
    /\ \E id \in TaskIds : Returns("delete_task", id, None, delete_task(Self, id))

ForwardPass ==
    /\ nops < MaxOps
    /\ Returns("forward_pass", 0, None, forward_pass(Self))

BackwardPass ==
    /\ nops < MaxOps
    /\ Returns("backward_pass", 0, None, backward_pass(Self))

Refresh ==
    /\ nops < MaxOps
    /\ Returns("refresh", 0, None, refresh(Self))

SetCalendar ==
    /\ nops < MaxOps
    /\ \E cal \in CalendarInputs :
          Returns("set_calendar", 0, Some(cal), set_calendar(Self, cal))

ResetCalendarToDefault ==
    /\ nops < MaxOps
    /\ Returns("reset_calendar_to_default", 0, None, reset_calendar_to_default(Self))

Next ==
    \/ SetMetadata
    \/ SetProjectStartDate
    \/ SetProjectEndDate
    \/ SetProjectDates
    \/ UpsertTask
    \/ UpsertTaskRecord
    \/ ApplyRationaleTemplate
    \/ UpdateTaskDuration
    \/ DeleteTask
    \/ ForwardPass
    \/ BackwardPass
    \/ Refresh
    \/ SetCalendar
    \/ ResetCalendarToDefault

Spec == Init /\ [][Next]_vars

(***************************************************************************)
(* A second client: one that stores whole records, with the links and the  *)
(* baseline and actual dates a record can carry, and refreshes.            *)
(***************************************************************************)
RecordDaySpan == 2

\* Friday 2025-01-03 and the days after it.
RecordDates == { from_ymd(2025, 1, 3) + k : k \in 0..RecordDaySpan }

\* Predecessor lists, one of them naming a task twice; successors as a
\* client may supply them, unsorted and repeated.
LinkedPredLists == PredLists \cup { <<id, id>> : id \in TaskIds }
SuppliedSuccessors == { <<>>, <<MaxId, 1, MaxId>> }

RichTaskInputs ==
    { [Task_new(id, "a", MaxDur) EXCEPT !.predecessors = p, !.successors = s] :
        id \in TaskIds, p \in LinkedPredLists, s \in SuppliedSuccessors }
    \cup
    { [Task_new(id, "a", 0) EXCEPT !.predecessors = p] :
        id \in TaskIds, p \in PredLists }
    \cup
    { [Task_new(id, "a", MaxDur) EXCEPT !.baseline_finish = Some(b),
                                         !.actual_finish = Some(a)] :
        id \in TaskIds, b \in RecordDates, a \in RecordDates }
    \cup
    { [Task_new(id, "a", MaxDur) EXCEPT !.baseline_start = Some(b),
                                         !.actual_start = Some(a)] :
        id \in TaskIds, b \in RecordDates, a \in RecordDates }
    \cup
    \* both pairs at once, and a variance the client supplied
    { [Task_new(id, "a", MaxDur) EXCEPT !.baseline_finish = Some(Min(RecordDates)),
                                         !.actual_finish = Some(Max(RecordDates)),
                                         !.baseline_start = Some(Max(RecordDates)),
                                         !.actual_start = Some(Min(RecordDates)),
                                         !.schedule_variance_days = Some(MaxDur + 6)] :
        id \in TaskIds }

\* A project of the days of RecordDates, worked on every one of them.
ShortProject ==
    new_with_metadata_and_calendar(
        [ScheduleMetadata_default EXCEPT !.project_start_date = Min(RecordDates),
                                         !.project_end_date = Max(RecordDates)],
        from_config(ALL_WEEKDAYS, <<>>))

InitRecords ==
    /\ \E s \in {Schedule_new, ShortProject,
                  new_with_metadata_and_calendar(
                      ScheduleMetadata_default,
                      from_config(<<Mon, Tue, Wed, Thu, Sat>>, <<from_ymd(2025, 1, 2)>>))} :
          /\ df = s.df
          /\ metadata = s.metadata
          /\ calendar = s.calendar
          /\ calendar_is_custom = s.calendar_is_custom
    /\ ret = Call("new", 0, None, Ok(Self))
    /\ nops = 0
    /\ file = NoFile
    /\ http = NoServer
    /\ run = NoCall

UpsertRichTaskRecord ==
    /\ nops < MaxOps
    /\ \E task \in RichTaskInputs :
          Returns("upsert_task_record", task.id, Some(task), upsert_task_record(Self, task))

NextRecords ==
    \/ UpsertRichTaskRecord
    \/ DeleteTask
    \/ Refresh
    \/ SetCalendar
    \/ ResetCalendarToDefault

SpecRecords == InitRecords /\ [][NextRecords]_vars

(***************************************************************************)
(* A third client: one that builds a WorkCalendar, configures it through   *)
(* its public mutators and asks it for dates.  The calendar is the         *)
(* variable calendar; the Schedule variables stay as constructed.          *)
(***************************************************************************)
MaxAhead == 2
CalDaySpan == 6

PanicError == "panic"

\* NaiveDate::from_ymd_opt: None for a day the month does not have.
from_ymd_opt(y, m, d) ==
    IF m \in 1..12 /\ d >= 1 /\ civil(from_ymd(y, m, d)) = [year |-> y, month |-> m, day |-> d]
    THEN Some(from_ymd(y, m, d))
    ELSE None

\* from_config (and WorkCalendarConfig::new, which custom calls first)
\* panics on an empty working-day list.
from_config_panics(working_days) == SeqToSet(working_days) = {}

custom(working_days, holidays) ==
    IF from_config_panics(working_days) THEN Err(None, PanicError)
    ELSE Ok(from_config(SortedSeq(SeqToSet(working_days)), SortedSeq(SeqToSet(holidays))))

add_holiday(cal, date) == [cal EXCEPT !.holidays = cal.holidays \cup {date}]

add_holidays(cal, dates) == [cal EXCEPT !.holidays = cal.holidays \cup SeqToSet(dates)]

add_recurring_holiday(cal, mth, day, start_year, end_year) ==
    [cal EXCEPT !.holidays =
        cal.holidays \cup { Unwrap(from_ymd_opt(y, mth, day)) :
                              y \in { y \in start_year..end_year :
                                        IsSome(from_ymd_opt(y, mth, day)) } }]

\* nth_weekday panics when the month has no n-th such weekday.
add_recurring_weekday_holiday(cal, mth, wd, n, start_year, end_year) ==
    IF \E y \in start_year..end_year :
          nth_weekday_loop(from_ymd(y, mth, 1), mth, wd, n, 0) = None
    THEN Err(cal, PanicError)
    ELSE Ok([cal EXCEPT !.holidays =
                cal.holidays \cup { nth_weekday(y, mth, wd, n) : y \in start_year..end_year }])

set_working_days(cal, days) ==
    [cal EXCEPT !.non_working_days = SeqToSet(ALL_WEEKDAYS) \ SeqToSet(days)]

\* With no working weekday the search loops of the calendar never find a
\* day and end in the overflow panic of NaiveDate + Duration.
has_working_weekday(cal) == cal.non_working_days # SeqToSet(ALL_WEEKDAYS)

\* Inputs of the calendar client.
CalendarDates == { from_ymd(2025, 1, 1) + k : k \in 0..CalDaySpan }
WorkingDayInputs ==
    { <<>>, <<Sat>>, <<Sun, Sat, Sun>>, <<Mon, Tue, Wed, Thu, Sat>>, ALL_WEEKDAYS }
HolidayInputs == { from_ymd(2025, 1, 3), from_ymd(2025, 1, 6) }
RecurringDays == { <<1, 2>>, <<2, 30>> }
YearRanges == { <<2025, 2025>>, <<2025, 2024>> }

CalReturns(op, arg, r) ==
    /\ calendar' = r.self
    /\ ret' = Call(op, 0, arg, r)
    /\ nops' = nops + 1
    /\ UNCHANGED <<df, metadata, calendar_is_custom, file, http, run>>

InitCalendar ==
    /\ df = <<>>
    /\ metadata = ScheduleMetadata_default
    /\ calendar_is_custom = FALSE
    /\ \E yy \in YearRanges : calendar = with_year_range(yy[1], yy[2])
    /\ ret = Call("with_year_range", 0, None, Ok(calendar))
    /\ nops = 0
    /\ file = NoFile
    /\ http = NoServer
    /\ run = NoCall

\* WorkCalendar::custom / from_config: a new calendar in place of the old
\* one, or the panic, which leaves the client with the calendar it had.
Custom ==
    /\ nops < MaxOps
    /\ \E w \in WorkingDayInputs, h \in {<<>>} \cup { <<d, d>> : d \in HolidayInputs } :
          LET r == custom(w, h)
          IN  CalReturns("custom", Some([working_days |-> w, holidays |-> h]),
                         IF r.err # "" THEN Err(calendar, r.err) ELSE r)

SetWorkingDays ==
    /\ nops < MaxOps
    /\ \E w \in WorkingDayInputs :
          CalReturns("set_working_days", Some([working_days |-> w, holidays |-> <<>>]),
                     Ok(set_working_days(calendar, w)))

AddHoliday ==
    /\ nops < MaxOps
    /\ \E d \in HolidayInputs :
          CalReturns("add_holiday", Some(d), Ok(add_holiday(calendar, d)))

AddHolidays ==
    /\ nops < MaxOps
    /\ \E d \in HolidayInputs :
          CalReturns("add_holidays", Some(<<d, d + 1>>),
                     Ok(add_holidays(calendar, <<d, d + 1>>)))

AddRecurringHoliday ==
    /\ nops < MaxOps
    /\ \E md \in RecurringDays, yy \in YearRanges :
          CalReturns("add_recurring_holiday", Some(<<md[1], md[2], yy[1], yy[2]>>),
                     Ok(add_recurring_holiday(calendar, md[1], md[2], yy[1], yy[2])))

AddRecurringWeekdayHoliday ==
    /\ nops < MaxOps
    /\ \E n \in {1, 5}, yy \in YearRanges :
          CalReturns("add_recurring_weekday_holiday", Some(<<1, Tue, n, yy[1], yy[2]>>),
                     add_recurring_weekday_holiday(calendar, 1, Tue, n, yy[1], yy[2]))

FindNextAvailable ==
    /\ nops < MaxOps
    /\ \E d \in CalendarDates, n \in 0..MaxAhead :
          CalReturns("find_next_available", Some(<<d, n>>),
                     IF n > 0 /\ ~has_working_weekday(calendar)
                     THEN Err(calendar, PanicError)
                     ELSE OkValue(calendar, find_next_available(calendar, d, n)))

NextAvailable ==
    /\ nops < MaxOps
    /\ \E d \in CalendarDates :
          CalReturns("next_available", Some(d),
                     IF ~has_working_weekday(calendar) THEN Err(calendar, PanicError)
                     ELSE OkValue(calendar, next_available(calendar, d)))

PrevAvailable ==
    /\ nops < MaxOps
    /\ \E d \in CalendarDates :
          CalReturns("prev_available", Some(d),
                     IF ~has_working_weekday(calendar) THEN Err(calendar, PanicError)
                     ELSE OkValue(calendar, prev_available(calendar, d)))

NextCalendar ==
    \/ Custom
    \/ SetWorkingDays
    \/ AddHoliday
    \/ AddHolidays
    \/ AddRecurringHoliday
    \/ AddRecurringWeekdayHoliday
    \/ FindNextAvailable
    \/ NextAvailable
    \/ PrevAvailable

SpecCalendar == InitCalendar /\ [][NextCalendar]_vars

(***************************************************************************)
(* Properties.                                                             *)
(***************************************************************************)
ScheduleUnchanged == UNCHANGED <<df, metadata, calendar, calendar_is_custom>>

\* C1: whenever upsert_task, upsert_task_record or apply_rationale_template
\* returns an error, the Schedule is unchanged: the task table (every field
\* of every row, and the row order), the metadata and the calendar are what
\* they were before the call.
C1_FailedUpsertLeavesScheduleUnchanged ==
    [][ (/\ ret'.op \in {"upsert_task", "upsert_task_record", "apply_rationale_template"}
         /\ ret'.err # "")
        => ScheduleUnchanged ]_vars

\* The progress rules of validate_task, whatever the other fields hold.
progress_rules(task) ==
    validate_task([task EXCEPT !.duration_days = 0, !.resource_allocations = <<>>]) = ""

\* C2: in every state reached through the public mutators, every stored task
\* satisfies the progress rules of validate_task (percent_complete within
\* the set its stored progress_measurement allows; a PreDefinedRationale
\* task with a non-empty rationale list of unique ids and weights summing
\* to 1), also after upsert_task_record updates a task with a record whose
\* percent_complete is unset.
C2_StoredTasksSatisfyProgressRules ==
    \A i \in DOMAIN df : progress_rules(df[i])

\* C3: after any sequence of calls of the public mutators every stored task
\* has duration_days >= 0.
C3_StoredDurationsNonNegative ==
    \A i \in DOMAIN df : df[i].duration_days >= 0

\* C4: after every successful refresh of a table with durations >= 0, every
\* task has early_finish <= late_finish and early_start <= late_start, and so
\* total_float >= 0; non-working project dates and zero durations included.
C4_EarlyDatesNotAfterLateDates ==
    (/\ ret.op = "refresh"
     /\ ret.err = ""
     /\ \A i \in DOMAIN df : df[i].duration_days >= 0)
    => \A i \in DOMAIN df :
          /\ Unwrap(df[i].early_finish) <= Unwrap(df[i].late_finish)
          /\ Unwrap(df[i].early_start) <= Unwrap(df[i].late_start)
          /\ Unwrap(df[i].total_float) >= 0

WritesFinishOrEnd ==
    {"refresh", "delete_task", "set_calendar", "reset_calendar_to_default",
     "set_metadata", "set_project_end_date", "set_project_dates"}
OnExistingId == {"upsert_task", "upsert_task_record", "update_task_duration"}

\* C5: after a successful call of an operation that writes early_finish or
\* changes the project end date (refresh, upsert_task / upsert_task_record /
\* update_task_duration on an existing id, delete_task, set_calendar,
\* reset_calendar_to_default, set_metadata, set_project_end_date,
\* set_project_dates), every non-null stored early_finish is
\* <= metadata.project_end_date.
C5_StoredFinishesWithinProjectEnd ==
    [][ (/\ ret'.err = ""
         /\ \/ ret'.op \in WritesFinishOrEnd
            \/ ret'.op \in OnExistingId /\ id_exists(df, ret'.id))
        => \A i \in DOMAIN df' :
              IsSome(df'[i].early_finish)
              => Unwrap(df'[i].early_finish) <= metadata'.project_end_date ]_vars

\* C6: refresh returns Ok only if every early_finish its forward pass left is
\* <= metadata.project_end_date; whenever its forward pass yields an
\* early_finish after the project end, refresh returns the horizon error,
\* naming the project end and the required finish (the latest early_finish).
C6_RefreshChecksHorizon ==
    [][ ret'.op = "refresh"
        => /\ ret'.err = ""
              => \A i \in DOMAIN df' :
                    /\ IsSome(df'[i].early_finish)
                    /\ Unwrap(df'[i].early_finish) <= metadata'.project_end_date
           /\ LET fwd == forward_pass(Self)
                  finish == latest_early_finish(fwd.self.df)
              IN  (/\ metadata.project_start_date <= metadata.project_end_date
                   /\ fwd.err = ""
                   /\ IsSome(finish)
                   /\ Unwrap(finish) > metadata.project_end_date)
                  => /\ ret'.err = HorizonError
                     /\ ret'.project_end = metadata.project_end_date
                     /\ ret'.required_finish = Unwrap(finish) ]_vars

\* C6 happens: a refresh that returned the horizon error.
C6_Witness ==
    /\ ret.op = "refresh"
    /\ ret.err = HorizonError
    /\ ret.required_finish > ret.project_end
    /\ ret.project_end = metadata.project_end_date

\* The predecessor relation restricted to the rows of the table has a cycle.
has_cycle(table) == toposort(ScheduleDag_build(table)) = None

\* C7: if the predecessor relation restricted to existing tasks has a cycle
\* (a task listing itself included), refresh returns a cycle error and the
\* late_start and late_finish of every task are what they were before.
C7_RefreshOnCycle ==
    [][ (ret'.op = "refresh" /\ has_cycle(df))
        => /\ ret'.err = CycleError
           /\ Len(df') = Len(df)
           /\ \A i \in DOMAIN df :
                 /\ df'[i].late_start = df[i].late_start
                 /\ df'[i].late_finish = df[i].late_finish ]_vars

MetadataSetters ==
    {"set_metadata", "set_project_start_date", "set_project_end_date", "set_project_dates"}

\* The metadata a setter asks for: its argument applied to the current one.
requested_metadata(call, current) ==
    CASE call.op = "set_metadata" -> Unwrap(call.arg)
      [] call.op = "set_project_start_date" ->
             [current EXCEPT !.project_start_date = Unwrap(call.arg)]
      [] call.op = "set_project_end_date" ->
             [current EXCEPT !.project_end_date = Unwrap(call.arg)]
      [] call.op = "set_project_dates" ->
             [current EXCEPT !.project_start_date = Unwrap(call.arg)[1],
                             !.project_end_date = Unwrap(call.arg)[2]]

\* C8: set_metadata(md), and set_project_start_date / set_project_end_date /
\* set_project_dates through it, returns StartAfterEnd when md.start > md.end,
\* returns EndPrecedesScheduleFinish with project_end = md.end and
\* required_finish = the latest stored early_finish when the table is
\* non-empty and that finish is after md.end, and in both cases leaves the
\* metadata, calendar, calendar_is_custom and task table unchanged;
\* otherwise it commits md.
C8_SetMetadataValidatesThenCommits ==
    [][ ret'.op \in MetadataSetters
        => LET md == requested_metadata(ret', metadata)
               finish == latest_early_finish(df)
           IN  IF md.project_start_date > md.project_end_date
               THEN ret'.err = StartAfterEnd /\ ScheduleUnchanged
               ELSE IF /\ Len(df) > 0
                       /\ IsSome(finish)
                       /\ Unwrap(finish) > md.project_end_date
               THEN /\ ret'.err = EndPrecedesScheduleFinish
                    /\ ret'.project_end = md.project_end_date
                    /\ ret'.required_finish = Unwrap(finish)
                    /\ ScheduleUnchanged
               ELSE /\ ret'.err = ""
                    /\ metadata' = md
                    /\ df' = df
                    /\ calendar_is_custom' = calendar_is_custom ]_vars

\* C8 happens: a setter refused an end date before a stored finish, and the
\* metadata is still in order.
C8_Witness ==
    /\ ret.op \in MetadataSetters
    /\ ret.err = EndPrecedesScheduleFinish
    /\ Len(df) > 0
    /\ ret.required_finish > ret.project_end
    /\ metadata.project_end_date >= ret.required_finish

\* C9: in every state reachable through the constructors, the metadata
\* setters and the loaders, metadata.project_start_date <=
\* metadata.project_end_date.
C9_MetadataStartNotAfterEnd ==
    metadata.project_start_date <= metadata.project_end_date

Upserts == {"upsert_task", "upsert_task_record", "apply_rationale_template"}

\* C10: no two rows of the task table have the same id: an upsert whose id
\* is present never adds a row, and a successful upsert whose id is absent
\* adds exactly one row, with that id.
C10_TaskIdsUnique ==
    [][ /\ \A i, j \in DOMAIN df' : df'[i].id = df'[j].id => i = j
        /\ (ret'.op \in Upserts /\ id_exists(df, ret'.id))
           => /\ Len(df') = Len(df)
              /\ \A i \in DOMAIN df : df'[i].id = df[i].id
        /\ (ret'.op \in Upserts /\ ~id_exists(df, ret'.id) /\ ret'.err = "")
           => /\ Len(df') = Len(df) + 1
              /\ SubSeq(df', 1, Len(df)) = df
              /\ df'[Len(df')].id = ret'.id ]_vars

\* C10 happens: upsert_task has just updated a row that a record created
\* (only a record sets a progress method), in a table of two rows.
C10_Witness ==
    /\ ret.op = "upsert_task"
    /\ ret.err = ""
    /\ Len(df) = 2
    /\ \E i \in DOMAIN df :
          /\ df[i].id = ret.id
          /\ df[i].name = "b"
          /\ df[i].progress_measurement = ZeroOneHundred

\* The fields of a task a client sets (the derived ones left out).
user_settable(task) ==
    [name |-> task.name, duration_days |-> task.duration_days,
     predecessors |-> task.predecessors,
     baseline_start |-> task.baseline_start, baseline_finish |-> task.baseline_finish,
     actual_start |-> task.actual_start, actual_finish |-> task.actual_finish,
     percent_complete |-> task.percent_complete,
     progress_measurement |-> task.progress_measurement,
     pre_defined_rationale |-> task.pre_defined_rationale,
     parent_id |-> task.parent_id, wbs_code |-> task.wbs_code,
     task_notes |-> task.task_notes, task_attachments |-> task.task_attachments,
     resource_allocations |-> task.resource_allocations]

\* C11: after a successful upsert_task_record(t), whether t.id was new or
\* present, find_task(t.id) returns a task whose user-settable fields all
\* equal those of t, the fields t leaves unset (None) and the lists t leaves
\* empty included: values are replaced wholesale, never merged.
C11_UpsertRecordReplacesEveryField ==
    [][ (ret'.op = "upsert_task_record" /\ ret'.err = "")
        => /\ IsSome(find_task(df', ret'.id))
           /\ user_settable(Unwrap(find_task(df', ret'.id)))
                = user_settable(Unwrap(ret'.arg)) ]_vars

\* The rows other than task_id, in order, as delete_task hands them on: id
\* and user-settable fields, task_id struck from the predecessors.
remaining_user_fields(table, task_id) ==
    LET kept == SelectSeq(table, LAMBDA t : t.id # task_id)
    IN  [ i \in DOMAIN kept |->
            <<kept[i].id,
              user_settable([kept[i] EXCEPT
                               !.predecessors = Retain(kept[i].predecessors, task_id)])>> ]

\* C12: delete_task(id) of an id in the table returns Ok(true), and then
\* find_task(id) is None, no remaining task lists id among its predecessors
\* or successors, every other task is present in the same relative order
\* with unchanged user-settable fields, and the derived fields are those of
\* a refresh of the remaining tasks; of an id not in the table it returns
\* Ok(false) and the Schedule is unchanged.
C12_DeleteTaskRemovesAndRefreshes ==
    [][ ret'.op = "delete_task"
        => /\ ret'.err = ""
           /\ ret'.value = id_exists(df, ret'.id)
           /\ IF id_exists(df, ret'.id)
              THEN /\ find_task(df', ret'.id) = None
                   /\ \A i \in DOMAIN df' :
                         /\ ret'.id \notin SeqToSet(df'[i].predecessors)
                         /\ ret'.id \notin SeqToSet(df'[i].successors)
                   /\ remaining_user_fields(df', ret'.id)
                        = remaining_user_fields(df, ret'.id)
                   /\ LET again == refresh([df |-> df', metadata |-> metadata',
                                            calendar |-> calendar',
                                            calendar_is_custom |-> calendar_is_custom'])
                      IN  again.err = "" /\ again.self.df = df'
              ELSE ScheduleUnchanged ]_vars

C14_CriticalIffZeroFloat ==
    (ret.op \in {"refresh", "backward_pass"} /\ ret.err = "")
    => \A i \in DOMAIN df :
          /\ IsSome(df[i].is_critical)
          /\ IsSome(df[i].total_float)
          /\ Unwrap(df[i].is_critical) <=> (Unwrap(df[i].total_float) = 0)
          /\ IsSome(df[i].late_start)
          /\ IsSome(df[i].early_start)
          /\ Unwrap(df[i].total_float)
               = Unwrap(df[i].late_start) - Unwrap(df[i].early_start)

\* The baseline and actual date pair of a task: the finish pair, else the
\* start pair, else None.
variance_pair(t) ==
    IF IsSome(t.baseline_finish) /\ IsSome(t.actual_finish)
    THEN Some(<<Unwrap(t.baseline_finish), Unwrap(t.actual_finish)>>)
    ELSE IF IsSome(t.baseline_start) /\ IsSome(t.actual_start)
    THEN Some(<<Unwrap(t.baseline_start), Unwrap(t.actual_start)>>)
    ELSE None

Sign(x) == IF x > 0 THEN 1 ELSE IF x < 0 THEN -1 ELSE 0

\* C15: after a successful refresh, for every task whose baseline and actual
\* date pair is set (finish pair, else start pair) and for every calendar,
\* schedule_variance_days is > 0 if the actual date is later than the
\* baseline date, < 0 if it is earlier and 0 if the two are equal, dates on
\* non-working days included.
C15_VarianceSignMatchesDirection ==
    (ret.op = "refresh" /\ ret.err = "")
    => \A i \in DOMAIN df :
          IsSome(variance_pair(df[i]))
          => /\ IsSome(df[i].schedule_variance_days)
             /\ Sign(Unwrap(df[i].schedule_variance_days))
                  = Sign(Unwrap(variance_pair(df[i]))[2] - Unwrap(variance_pair(df[i]))[1])

CalendarSetters == {"set_calendar", "reset_calendar_to_default"}

\* C16: a successful set_calendar leaves calendar_is_custom true and the
\* calendar the supplied one; while calendar_is_custom is true, every call
\* other than set_calendar and reset_calendar_to_default (set_metadata,
\* set_project_*, upserts, delete_task, refresh, the passes) leaves the flag
\* true and the calendar as it was; reset_calendar_to_default sets the flag
\* to false and the calendar to the default one of the metadata's year range.
C16_CustomCalendarSticks ==
    [][ /\ (ret'.op = "set_calendar" /\ ret'.err = "")
           => calendar_is_custom' /\ calendar' = Unwrap(ret'.arg)
        /\ (calendar_is_custom /\ ret'.op \notin CalendarSetters)
           => calendar_is_custom' /\ calendar' = calendar
        /\ ret'.op = "reset_calendar_to_default"
           => /\ ~calendar_is_custom'
              /\ calendar' = with_year_range(year(metadata'.project_start_date),
                                             year(metadata'.project_end_date)) ]_vars

\* C16 happens: set_project_end_date has moved the project end of a Schedule
\* with tasks whose calendar is a custom one, and the calendar is still not
\* the default one of the new metadata.
C16_Witness ==
    /\ ret.op = "set_project_end_date"
    /\ ret.err = ""
    /\ metadata.project_end_date = Unwrap(ret.arg)
    /\ metadata.project_end_date # ScheduleMetadata_default.project_end_date
    /\ calendar_is_custom
    /\ calendar # calendar_for_metadata(metadata)
    /\ df # <<>>

\* C17: refresh is idempotent: when refresh has succeeded and is called
\* again with no call in between, the second call succeeds too, leaves every
\* field of every task as it was and returns a RefreshSummary equal to the
\* first one.
C17_RefreshIdempotent ==
    [][ (ret.op = "refresh" /\ ret.err = "" /\ ret'.op = "refresh")
        => /\ ret'.err = ""
           /\ df' = df
           /\ ret'.value = ret.value ]_vars

\* C17 happens: the third call on a Schedule of one task is a successful
\* refresh that counts a variance other than 0 (one upsert, then two
\* further calls, the refresh the last of them).
C17_Witness ==
    /\ ret.op = "refresh"
    /\ ret.err = ""
    /\ nops = MaxOps
    /\ Len(df) = 1
    /\ df[1].schedule_variance_days \notin {None, Some(0)}
    /\ ret.value.task_count = 1
    /\ ret.value.positive_variance_count + ret.value.negative_variance_count = 1

cpm_dates(table) ==
    [ i \in DOMAIN table |->
        <<table[i].early_start, table[i].early_finish,
          table[i].late_start, table[i].late_finish>> ]

\* The table with the name, the duration and, when supplied, the
\* predecessors of the rows of the id replaced.
with_task_fields(table, id, fields) ==
    [ i \in DOMAIN table |->
        IF table[i].id # id THEN table[i]
        ELSE [table[i] EXCEPT
                !.name = fields.name,
                !.duration_days = fields.duration_days,
                !.predecessors = IF IsSome(fields.predecessors)
                                 THEN Unwrap(fields.predecessors)
                                 ELSE table[i].predecessors] ]

\* C19: a successful upsert_task(id, name, duration, preds) on an id of the
\* table adds no row, replaces that task's name and duration, replaces its
\* predecessors if and only if preds is supplied, and leaves the early and
\* late dates of every task, downstream ones included, equal to what a
\* forward pass and then a backward pass over the updated table produce.
C19_UpsertTaskRecomputesDates ==
    [][ (ret'.op = "upsert_task" /\ ret'.err = "" /\ id_exists(df, ret'.id))
        => Bind(with_task_fields(df, ret'.id, Unwrap(ret'.arg)), LAMBDA updated :
             /\ Len(df') = Len(df)
             /\ \A i \in DOMAIN df :
                   /\ df'[i].id = df[i].id
                   /\ user_settable(df'[i]) = user_settable(updated[i])
             /\ Bind(forward_pass([Self EXCEPT !.df = updated]), LAMBDA fwd :
                   /\ fwd.err = ""
                   /\ Bind(backward_pass(fwd.self), LAMBDA bwd :
                         /\ bwd.err = ""
                         /\ cpm_dates(df') = cpm_dates(bwd.self.df)))) ]_vars

\* C19 happens: upsert_task has renamed a task that already had its late
\* dates (a new row has none), and the other task of the table, stored by a
\* record, names it as its predecessor and has its dates too.
C19_Witness ==
    /\ ret.op = "upsert_task"
    /\ ret.err = ""
    /\ Len(df) = 2
    /\ \E i, j \in DOMAIN df :
          /\ df[i].id = ret.id
          /\ df[i].name = "b"
          /\ df[j].name = "a"
          /\ df[j].predecessors = <<ret.id>>
          /\ df[j].id # ret.id
          /\ IsSome(df[i].late_start)
          /\ IsSome(df[j].late_start)
          /\ Unwrap(df[j].early_start) > Unwrap(df[i].early_start)

\* The user-settable fields other than the two a template sets.
fields_beside_rationale(task) ==
    [user_settable(task) EXCEPT !.progress_measurement = PreDefinedRationale,
                                !.pre_defined_rationale = <<>>]

\* C20: a successful apply_rationale_template(id, template) leaves the task
\* with progress_measurement = PreDefinedRationale and pre_defined_rationale
\* the item sequence of the template (ids from 1, every is_complete false,
\* weights summing to 1.0, the same sequence on every application) and
\* leaves the task's other user-settable fields and the user-settable fields
\* of every other task as they were; for an id not in the table it returns
\* an error and changes nothing.
C20_TemplateSetsRationaleOnly ==
    [][ ret'.op = "apply_rationale_template"
        => IF id_exists(df, ret'.id)
           THEN ret'.err = ""
                => /\ Len(df') = Len(df)
                   /\ \A i \in DOMAIN df :
                         /\ df'[i].id = df[i].id
                         /\ IF df[i].id = ret'.id
                            THEN /\ df'[i].progress_measurement = PreDefinedRationale
                                 /\ df'[i].pre_defined_rationale
                                      = template_items(Unwrap(ret'.arg))
                                 /\ \A k \in DOMAIN df'[i].pre_defined_rationale :
                                       /\ df'[i].pre_defined_rationale[k].id = k
                                       /\ ~df'[i].pre_defined_rationale[k].is_complete
                                 /\ SumWeights(df'[i].pre_defined_rationale) = ONE
                                 /\ fields_beside_rationale(df'[i])
                                      = fields_beside_rationale(df[i])
                            ELSE user_settable(df'[i]) = user_settable(df[i])
           ELSE ret'.err # "" /\ ScheduleUnchanged ]_vars

\* C20 happens: a template has been applied to a task that a record stored
\* with a percent_complete, in a table of two tasks.
C20_Witness ==
    /\ ret.op = "apply_rationale_template"
    /\ ret.err = ""
    /\ ret.arg = Some("twenty_five_seventy_five")
    /\ Len(df) = 2
    /\ \E i \in DOMAIN df :
          /\ df[i].id = ret.id
          /\ df[i].pre_defined_rationale = template_items("twenty_five_seventy_five")
          /\ df[i].name = "a"
          /\ IsSome(df[i].percent_complete)

ConfiguresWorkingDays == {"custom", "set_working_days"}

\* C21: every WorkCalendar reached through the public constructors and
\* mutators has at least one working weekday, and an attempt to construct
\* or configure a calendar with an empty working-day set fails.
C21_CalendarHasWorkingWeekday ==
    /\ \E wd \in SeqToSet(ALL_WEEKDAYS) : wd \notin calendar.non_working_days
    /\ (/\ ret.op \in ConfiguresWorkingDays
        /\ SeqToSet(Unwrap(ret.arg).working_days) = {})
       => ret.err # ""

\* C22: for every calendar with a working weekday, every date d and every
\* n >= 0: find_next_available(d, 0) = d, and for n > 0 the result r is
\* strictly after d, is an available day, and exactly n available days lie
\* in (d, r], whether d itself is available or not.
C22_FindNextAvailableCounts ==
    (/\ ret.op = "find_next_available"
     /\ \E wd \in SeqToSet(ALL_WEEKDAYS) : wd \notin calendar.non_working_days)
    => /\ ret.err = ""
       /\ LET d == Unwrap(ret.arg)[1]
              n == Unwrap(ret.arg)[2]
              r == ret.value
          IN  /\ n = 0 => r = d
              /\ n > 0
                 => /\ r > d
                    /\ r \notin calendar.holidays
                    /\ weekday(r) \notin calendar.non_working_days
                    /\ Cardinality({ x \in (d + 1)..r :
                                       /\ x \notin calendar.holidays
                                       /\ weekday(x) \notin calendar.non_working_days }) = n

\* C22 happens: find_next_available has counted MaxAhead days from a day
\* that is not available and has passed over days that are not available.
C22_Witness ==
    /\ ret.op = "find_next_available"
    /\ ret.err = ""
    /\ Unwrap(ret.arg)[2] = MaxAhead
    /\ ~is_available(calendar, Unwrap(ret.arg)[1])
    /\ ret.value > Unwrap(ret.arg)[1] + MaxAhead
    /\ calendar.holidays # {}

\* A day the calendar works on, spelt out from its two sets.
works_on(cal, x) == x \notin cal.holidays /\ weekday(x) \notin cal.non_working_days

\* C23: for every calendar with a working weekday and every date d,
\* next_available(d) is strictly after d, is an available day, and no
\* available day lies strictly between d and it; prev_available(d) is the
\* largest available day strictly before d.
C23_NextAndPrevAvailableAreNearest ==
    (/\ ret.op \in {"next_available", "prev_available"}
     /\ \E wd \in SeqToSet(ALL_WEEKDAYS) : wd \notin calendar.non_working_days)
    => /\ ret.err = ""
       /\ works_on(calendar, ret.value)
       /\ ret.op = "next_available"
          => /\ ret.value > Unwrap(ret.arg)
             /\ \A x \in (Unwrap(ret.arg) + 1)..(ret.value - 1) : ~works_on(calendar, x)
       /\ ret.op = "prev_available"
          => /\ ret.value < Unwrap(ret.arg)
             /\ \A x \in (ret.value + 1)..(Unwrap(ret.arg) - 1) : ~works_on(calendar, x)

\* C23 happens: next_available has stepped from a working day over days
\* that are not available.
C23_Witness ==
    /\ ret.op = "next_available"
    /\ ret.err = ""
    /\ is_available(calendar, Unwrap(ret.arg))
    /\ ret.value > Unwrap(ret.arg) + 2

(***************************************************************************)
(* Text of a CSV cell: a String is the sequence of its characters.         *)
(***************************************************************************)
Whitespace == {" "}
Digits == <<"0", "1", "2", "3", "4", "5", "6", "7", "8", "9">>

RECURSIVE trim_start(_)
trim_start(s) ==
    IF s # <<>> /\ Head(s) \in Whitespace THEN trim_start(Tail(s)) ELSE s

\* str::trim
trim(s) == Reverse(trim_start(Reverse(trim_start(s))))

\* str::split: the pieces between the separators, one more than there are
\* separators.
RECURSIVE split_from(_, _, _, _)
split_from(s, sep, i, piece) ==
    IF i > Len(s) THEN <<piece>>
    ELSE IF s[i] = sep THEN <<piece>> \o split_from(s, sep, i + 1, <<>>)
    ELSE split_from(s, sep, i + 1, Append(piece, s[i]))

split(s, sep) == split_from(s, sep, 1, <<>>)

\* [String]::join
RECURSIVE join(_, _)
join(values, sep) ==
    IF values = <<>> THEN <<>>
    ELSE IF Len(values) = 1 THEN values[1]
    ELSE values[1] \o <<sep>> \o join(Tail(values), sep)

\* Display of an integer: a minus sign, then the decimal digits.
RECURSIVE digits_of(_)
digits_of(n) ==
    IF n < 10 THEN <<Digits[n + 1]>>
    ELSE Append(digits_of(n \div 10), Digits[(n % 10) + 1])

to_string(n) == IF n < 0 THEN <<"-">> \o digits_of(-n) ELSE digits_of(n)

digit_value(c) == CHOOSE k \in 0..9 : Digits[k + 1] = c

RECURSIVE digits_value(_, _)
digits_value(s, acc) ==
    IF s = <<>> THEN acc
    ELSE digits_value(Tail(s), 10 * acc + digit_value(Head(s)))

all_digits(s) == s # <<>> /\ \A i \in DOMAIN s : s[i] \in SeqToSet(Digits)

\* str::parse of an integer: Some(n), or None for text that is no integer.
parse_integer(s) ==
    IF all_digits(s) THEN Some(digits_value(s, 0))
    ELSE IF s # <<>> /\ Head(s) \in {"-", "+"} /\ all_digits(Tail(s))
    THEN Some((IF Head(s) = "-" THEN -1 ELSE 1) * digits_value(Tail(s), 0))
    ELSE None

(***************************************************************************)
(* persistence: errors, and the cells of a CSV row (persistence/file.rs).  *)
(***************************************************************************)
\* Display of PersistenceError::InvalidData and PersistenceError::DataFrame.
InvalidData(msg) == "invalid data: " \o msg
DataFrame(msg) == "dataframe conversion error: " \o msg

Parsed(v) == [err |-> "", value |-> v]
ParseError(msg) == [err |-> InvalidData(msg), value |-> None]

\* A number in two digits at least, as %m and %d print it.
pad2(n) == IF n < 10 THEN <<"0">> \o digits_of(n) ELSE digits_of(n)
\* A year in four digits at least, as %Y prints it.
pad4(n) == IF n < 1000 THEN <<"0">> \o (IF n < 100 THEN <<"0">> \o pad2(n) ELSE digits_of(n))
           ELSE digits_of(n)

format_date(date) ==
    IF date = None THEN <<>>
    ELSE LET c == civil(Unwrap(date))
         IN  pad4(c.year) \o <<"-">> \o pad2(c.month) \o <<"-">> \o pad2(c.day)

parse_date(input) ==
    IF trim(input) = <<>> THEN Parsed(None)
    ELSE LET parts == split(trim(input), "-")
         IN  IF Len(parts) # 3 \/ (\E i \in 1..3 : ~all_digits(parts[i]))
             THEN ParseError("invalid date")
             ELSE Bind(from_ymd_opt(digits_value(parts[1], 0), digits_value(parts[2], 0),
                                    digits_value(parts[3], 0)),
                       LAMBDA d : IF d = None THEN ParseError("invalid date")
                                  ELSE Parsed(d))

\* The digits of a fraction counted in millionths, without trailing zeros.
RECURSIVE fraction_digits(_, _)
fraction_digits(frac, unit) ==
    IF frac = 0 THEN <<>>
    ELSE <<Digits[(frac \div unit) + 1]>> \o fraction_digits(frac % unit, unit \div 10)

\* Display of an f64: the shortest decimal that reads back as the value.
f64_to_string(v) ==
    (IF v < 0 THEN <<"-">> ELSE <<>>)
    \o digits_of(Abs(v) \div ONE)
    \o (IF Abs(v) % ONE = 0 THEN <<>>
        ELSE <<".">> \o fraction_digits(Abs(v) % ONE, ONE \div 10))

format_option_f64(value) == IF value = None THEN <<>> ELSE f64_to_string(Unwrap(value))

RECURSIVE fraction_value(_, _)
fraction_value(s, unit) ==
    IF s = <<>> \/ unit = 0 THEN 0
    ELSE digit_value(Head(s)) * unit + fraction_value(Tail(s), unit \div 10)

\* str::parse::<f64> of a decimal: sign, digits, and a fraction.
parse_decimal(s) ==
    LET signed == s # <<>> /\ Head(s) \in {"-", "+"}
        body == IF signed THEN Tail(s) ELSE s
        parts == split(body, ".")
        sign == IF signed /\ Head(s) = "-" THEN -1 ELSE 1
        digits_or_empty(p) == p = <<>> \/ all_digits(p)
    IN  IF \/ Len(parts) > 2
           \/ (\E i \in DOMAIN parts : ~digits_or_empty(parts[i]))
           \/ (\A k \in DOMAIN parts : parts[k] = <<>>)
        THEN None
        ELSE Some(sign * (digits_value(parts[1], 0) * ONE
                          + (IF Len(parts) = 2 THEN fraction_value(parts[2], ONE \div 10)
                             ELSE 0)))

parse_f64(input) ==
    IF trim(input) = <<>> THEN Parsed(None)
    ELSE Bind(parse_decimal(trim(input)),
              LAMBDA v : IF v = None THEN ParseError("invalid float") ELSE Parsed(v))

format_option_i64(value) == IF value = None THEN <<>> ELSE to_string(Unwrap(value))

parse_i64(input) ==
    IF trim(input) = <<>> THEN Parsed(None)
    ELSE Bind(parse_integer(trim(input)),
              LAMBDA v : IF v = None THEN ParseError("invalid integer") ELSE Parsed(v))

format_option_i32(value) == IF value = None THEN <<>> ELSE to_string(Unwrap(value))

I32_MAX == 2147483647

\* str::parse::<i32>: Some(n) for an integer of 32 bits.
parse_integer_i32(s) ==
    Bind(parse_integer(s),
         LAMBDA v : IF v # None /\ Unwrap(v) >= -I32_MAX - 1 /\ Unwrap(v) <= I32_MAX
                    THEN v ELSE None)

parse_i32(input) ==
    IF trim(input) = <<>> THEN Parsed(None)
    ELSE Bind(parse_integer_i32(trim(input)),
              LAMBDA v : IF v = None THEN ParseError("invalid integer") ELSE Parsed(v))

True == <<"t", "r", "u", "e">>
False == <<"f", "a", "l", "s", "e">>

format_option_bool(value) ==
    IF value = None THEN <<>> ELSE IF Unwrap(value) THEN True ELSE False

UpperCase == <<"A", "E", "F", "L", "R", "S", "T", "U">>
LowerCase == <<"a", "e", "f", "l", "r", "s", "t", "u">>

\* to_ascii_lowercase, on the letters of the two booleans.
to_ascii_lowercase(s) ==
    [ i \in DOMAIN s |->
        IF \E k \in DOMAIN UpperCase : UpperCase[k] = s[i]
        THEN LowerCase[CHOOSE k \in DOMAIN UpperCase : UpperCase[k] = s[i]]
        ELSE s[i] ]

parse_bool(input) ==
    IF trim(input) = <<>> THEN Parsed(None)
    ELSE Bind(to_ascii_lowercase(trim(input)),
              LAMBDA other : IF other = True THEN Parsed(Some(TRUE))
                             ELSE IF other = False THEN Parsed(Some(FALSE))
                             ELSE ParseError("invalid boolean"))

join_i32(values) == join([ i \in DOMAIN values |-> to_string(values[i]) ], ",")

split_i32(input) ==
    IF trim(input) = <<>> THEN Parsed(<<>>)
    ELSE Bind(split(input, ","), LAMBDA parts :
           Bind([ i \in DOMAIN parts |-> parse_integer_i32(trim(parts[i])) ], LAMBDA ns :
             IF \E i \in DOMAIN ns : ns[i] = None THEN ParseError("invalid integer")
             ELSE Parsed([ i \in DOMAIN ns |-> Unwrap(ns[i]) ])))

join_strings(values) == join(values, ";")

split_strings(input) ==
    IF trim(input) = <<>> THEN <<>>
    ELSE Bind(split(input, ";"), LAMBDA parts : [ i \in DOMAIN parts |-> trim(parts[i]) ])

parse_string_option(value) == IF trim(value) = <<>> THEN None ELSE Some(value)

(***************************************************************************)
(* persistence: snapshots of a Schedule in a JSON file and in a CSV file.  *)
(***************************************************************************)
\* WorkCalendarConfig::from(&WorkCalendar): the working weekdays from
\* Monday, the holidays in order.
to_config(cal) ==
    [working_days |-> SelectSeq(ALL_WEEKDAYS, LAMBDA day : day \notin cal.non_working_days),
     holidays |-> SortedSeq(cal.holidays)]

calendar_config(self) == to_config(self.calendar)

validate_tasks(tasks) ==
    IF validate_task_collection(tasks) = "" THEN ""
    ELSE InvalidData(validate_task_collection(tasks))

validate_schedule(schedule) == validate_tasks(schedule.df)

\* The calendar of a stored config; building it panics when the config has
\* no working day.
calendar_of_config(config, project) ==
    IF config = None
    THEN with_year_range(year(project.project_start_date), year(project.project_end_date))
    ELSE from_config(Unwrap(config).working_days, Unwrap(config).holidays)

\* The loop both loaders end with: every task goes through
\* upsert_task_record, whose error becomes PersistenceError::DataFrame.
upsert_loaded_tasks(schedule, tasks) ==
    Bind(upsert_all(schedule, tasks), LAMBDA r :
      IF r.err # "" THEN Err(r.self, DataFrame(r.err)) ELSE Ok(r.self))

ScheduleSnapshot_from_schedule(schedule) ==
    IF validate_tasks(schedule.df) # "" THEN [err |-> validate_tasks(schedule.df), value |-> None]
    ELSE Parsed([metadata |-> schedule.metadata,
                 calendar |-> Some(calendar_config(schedule)),
                 calendar_is_custom |-> schedule.calendar_is_custom,
                 tasks |-> schedule.df])

\* into_schedule without its first line, the validation of the tasks.
ScheduleSnapshot_into_schedule_unvalidated(snapshot) ==
    IF snapshot.calendar # None /\ from_config_panics(Unwrap(snapshot.calendar).working_days)
    THEN Err(None, PanicError)
    ELSE upsert_loaded_tasks(
             from_parts(snapshot.metadata,
                        calendar_of_config(snapshot.calendar, snapshot.metadata),
                        snapshot.calendar_is_custom),
             snapshot.tasks)

ScheduleSnapshot_into_schedule(snapshot) ==
    IF validate_tasks(snapshot.tasks) # "" THEN Err(None, validate_tasks(snapshot.tasks))
    ELSE IF snapshot.calendar # None
            /\ from_config_panics(Unwrap(snapshot.calendar).working_days)
    THEN Err(None, PanicError)
    ELSE upsert_loaded_tasks(
             from_parts(snapshot.metadata,
                        calendar_of_config(snapshot.calendar, snapshot.metadata),
                        snapshot.calendar_is_custom),
             snapshot.tasks)

\* The JSON document serde writes for a snapshot: one key per field.
JsonFile(document) == [format |-> "json", document |-> document]

save_schedule_to_json(schedule) ==
    Bind(ScheduleSnapshot_from_schedule(schedule), LAMBDA snapshot :
      IF snapshot.err # "" THEN [err |-> snapshot.err, value |-> None]
      ELSE Parsed(Some(JsonFile(snapshot.value))))

\* serde reading a ScheduleSnapshot: an absent calendar is None, an absent
\* calendar_is_custom is false.
snapshot_of_document(document) ==
    [metadata |-> document.metadata,
     calendar |-> IF "calendar" \in DOMAIN document THEN document.calendar ELSE None,
     calendar_is_custom |-> IF "calendar_is_custom" \in DOMAIN document
                            THEN document.calendar_is_custom ELSE FALSE,
     tasks |-> document.tasks]

IoError == "io error"
SerializationError == "serialization error"
CsvError == "csv error"

load_schedule_from_json(path) ==
    IF path.format = "none" THEN Err(None, IoError)
    ELSE IF path.format # "json" THEN Err(None, SerializationError)
    ELSE ScheduleSnapshot_into_schedule(snapshot_of_document(path.document))

\* A row of the CSV file. The three JSON cells of the metadata row and the
\* two of a task row hold Some(value) for the JSON text of value and None
\* for a blank cell.
TaskCsvRecord_default ==
    [id |-> 0, name |-> "", duration_days |-> 0,
     predecessors |-> <<>>,
     early_start |-> <<>>, early_finish |-> <<>>,
     late_start |-> <<>>, late_finish |-> <<>>,
     baseline_start |-> <<>>, baseline_finish |-> <<>>,
     actual_start |-> <<>>, actual_finish |-> <<>>,
     percent_complete |-> <<>>,
     progress_measurement |-> "",
     pre_defined_rationale |-> None,
     schedule_variance_days |-> <<>>, total_float |-> <<>>, is_critical |-> <<>>,
     successors |-> <<>>,
     parent_id |-> <<>>, wbs_code |-> <<>>, task_notes |-> <<>>,
     task_attachments |-> <<>>,
     resource_allocations |-> None,
     metadata_json |-> None, calendar_json |-> None, calendar_is_custom |-> <<>>]

\* Option<String>::unwrap_or_default
unwrap_or_default(value) == IF value = None THEN <<>> ELSE Unwrap(value)

TaskCsvRecord_from(task) ==
    [TaskCsvRecord_default EXCEPT
       !.id = task.id,
       !.name = task.name,
       !.duration_days = task.duration_days,
       !.predecessors = join_i32(task.predecessors),
       !.early_start = format_date(task.early_start),
       !.early_finish = format_date(task.early_finish),
       !.late_start = format_date(task.late_start),
       !.late_finish = format_date(task.late_finish),
       !.baseline_start = format_date(task.baseline_start),
       !.baseline_finish = format_date(task.baseline_finish),
       !.actual_start = format_date(task.actual_start),
       !.actual_finish = format_date(task.actual_finish),
       !.percent_complete = format_option_f64(task.percent_complete),
       !.progress_measurement = task.progress_measurement,
       !.pre_defined_rationale = Some(task.pre_defined_rationale),
       !.schedule_variance_days = format_option_i64(task.schedule_variance_days),
       !.total_float = format_option_i64(task.total_float),
       !.is_critical = format_option_bool(task.is_critical),
       !.successors = join_i32(task.successors),
       !.parent_id = format_option_i32(task.parent_id),
       !.wbs_code = unwrap_or_default(task.wbs_code),
       !.task_notes = unwrap_or_default(task.task_notes),
       !.task_attachments = join_strings(task.task_attachments),
       !.resource_allocations = Some(task.resource_allocations)]

metadata_row(schedule) ==
    [TaskCsvRecord_default EXCEPT
       !.name = "__metadata__",
       !.metadata_json = Some(schedule.metadata),
       !.calendar_json = Some(calendar_config(schedule)),
       !.calendar_is_custom = format_option_bool(Some(schedule.calendar_is_custom))]

is_metadata_row(record) == record.metadata_json # None

ProgressMeasurements ==
    {PercentComplete, ZeroOneHundred, FiftyFifty, TwentyFiveSeventyFive,
     SeventyFiveTwentyFive, PreDefinedRationale}

ProgressMeasurement_from_str(s) == IF s \in ProgressMeasurements THEN Some(s) ELSE None

\* The error of the first cell that fails to parse, "" when all parse.
RECURSIVE first_error(_)
first_error(cells) ==
    IF cells = <<>> THEN ""
    ELSE IF Head(cells).err # "" THEN Head(cells).err
    ELSE first_error(Tail(cells))

into_task(record) ==
    IF is_metadata_row(record)
    THEN ParseError("metadata row cannot be converted to task")
    ELSE Bind(<< split_i32(record.predecessors), split_i32(record.successors),
                 parse_date(record.early_start), parse_date(record.early_finish),
                 parse_date(record.late_start), parse_date(record.late_finish),
                 parse_date(record.baseline_start), parse_date(record.baseline_finish),
                 parse_date(record.actual_start), parse_date(record.actual_finish),
                 parse_f64(record.percent_complete),
                 parse_i64(record.schedule_variance_days), parse_i64(record.total_float),
                 parse_bool(record.is_critical), parse_i32(record.parent_id) >>,
              LAMBDA cells :
      IF first_error(cells) # "" THEN [err |-> first_error(cells), value |-> None]
      ELSE IF ProgressMeasurement_from_str(record.progress_measurement) = None
      THEN ParseError("invalid progress_measurement")
      ELSE Parsed(
             [Task_new(record.id, record.name, record.duration_days) EXCEPT
                !.predecessors = cells[1].value,
                !.successors = cells[2].value,
                !.early_start = cells[3].value,
                !.early_finish = cells[4].value,
                !.late_start = cells[5].value,
                !.late_finish = cells[6].value,
                !.baseline_start = cells[7].value,
                !.baseline_finish = cells[8].value,
                !.actual_start = cells[9].value,
                !.actual_finish = cells[10].value,
                !.percent_complete = cells[11].value,
                !.schedule_variance_days = cells[12].value,
                !.total_float = cells[13].value,
                !.is_critical = cells[14].value,
                !.parent_id = cells[15].value,
                !.wbs_code = parse_string_option(record.wbs_code),
                !.task_notes = parse_string_option(record.task_notes),
                !.task_attachments = split_strings(record.task_attachments),
                !.progress_measurement =
                    Unwrap(ProgressMeasurement_from_str(record.progress_measurement)),
                !.pre_defined_rationale = unwrap_or_default(record.pre_defined_rationale),
                !.resource_allocations = unwrap_or_default(record.resource_allocations)]))

CsvFile(rows) == [format |-> "csv", rows |-> rows]

save_schedule_to_csv(schedule) ==
    IF validate_schedule(schedule) # "" THEN [err |-> validate_schedule(schedule), value |-> None]
    ELSE Parsed(Some(CsvFile(<<metadata_row(schedule)>>
                             \o [ i \in DOMAIN schedule.df |-> TaskCsvRecord_from(schedule.df[i]) ])))

\* str::parse::<bool>().unwrap_or(false)
parse_bool_or_false(s) == s = True

\* The reading loop of load_schedule_from_csv, from row i on: the tasks,
\* the metadata and the calendar read so far.
RECURSIVE read_rows(_, _, _)
read_rows(rows, i, read) ==
    IF i > Len(rows) THEN read
    ELSE IF is_metadata_row(rows[i])
    THEN IF read.metadata # None
         THEN [read EXCEPT !.err = InvalidData("CSV file contained multiple metadata rows")]
         ELSE read_rows(rows, i + 1,
                [read EXCEPT
                   !.metadata = rows[i].metadata_json,
                   !.calendar_config = rows[i].calendar_json,
                   !.calendar_is_custom =
                       IF trim(rows[i].calendar_is_custom) # <<>>
                       THEN parse_bool_or_false(trim(rows[i].calendar_is_custom))
                       ELSE read.calendar_is_custom])
    ELSE Bind(into_task(rows[i]), LAMBDA task :
           IF task.err # "" THEN [read EXCEPT !.err = task.err]
           ELSE read_rows(rows, i + 1, [read EXCEPT !.tasks = Append(read.tasks, task.value)]))

load_schedule_from_csv(path) ==
    IF path.format = "none" THEN Err(None, IoError)
    ELSE IF path.format # "csv" THEN Err(None, CsvError)
    ELSE Bind(read_rows(path.rows, 1,
                        [err |-> "", tasks |-> <<>>, metadata |-> None,
                         calendar_config |-> None, calendar_is_custom |-> FALSE]),
              LAMBDA read :
      IF read.err # "" THEN Err(None, read.err)
      ELSE IF read.tasks = <<>> THEN Err(None, InvalidData("CSV file contained no tasks"))
      ELSE IF validate_tasks(read.tasks) # "" THEN Err(None, validate_tasks(read.tasks))
      ELSE IF read.metadata = None THEN upsert_loaded_tasks(Schedule_new, read.tasks)
      ELSE IF read.calendar_config # None
              /\ from_config_panics(Unwrap(read.calendar_config).working_days)
      THEN Err(None, PanicError)
      ELSE upsert_loaded_tasks(
               from_parts(Unwrap(read.metadata),
                          calendar_of_config(read.calendar_config, Unwrap(read.metadata)),
                          read.calendar_is_custom /\ read.calendar_config # None),
               read.tasks))

(***************************************************************************)
(* A third client: one that saves its Schedule to a file and loads a       *)
(* Schedule from the file, which other programs may have written.          *)
(***************************************************************************)
\* Texts a client stores: empty, with a blank in front, with the separator
\* of the attachment list.
CodesAndNotes == { <<Some(<<>>), None>>, <<Some(<<"x">>), Some(<<" ", "x">>)>> }
Attachments == { <<>>, << <<"x">>, <<"y">> >>, << <<"a", ";", "b">> >> }

FileTaskInputs ==
    { Task_new(1, "a", MaxDur),
      [Task_new(MaxId, "a", MaxDur) EXCEPT !.predecessors = <<1>>] }
    \cup
    { [Task_new(id, "a", 0) EXCEPT !.wbs_code = cn[1], !.task_notes = cn[2]] :
        id \in TaskIds, cn \in CodesAndNotes }
    \cup
    { [Task_new(1, "a", 0) EXCEPT !.wbs_code = Some(<<"x">>), !.task_attachments = a,
                                   !.parent_id = Some(MaxId),
                                   !.percent_complete = Some(3 * (ONE \div 10))] :
        a \in Attachments }

\* The records a client has stored before it first saves.
StoredBefore ==
    { <<>> } \cup { <<t>> : t \in FileTaskInputs }

\* Files as other programs write them: JSON documents with a task id
\* twice, with a negative duration, with a percent_complete its progress
\* method does not allow, and an old snapshot without calendar keys; CSV
\* files with the same faults, with two metadata rows, with no task row,
\* with no metadata row, and with a cell that is no date; and a file of
\* each format that sets calendar_is_custom and carries no calendar.
ForeignTaskLists ==
    { << Task_new(1, "a", MaxDur), Task_new(1, "b", 0) >>,
      << Task_new(1, "a", -1) >>,
      << [Task_new(1, "a", MaxDur) EXCEPT !.progress_measurement = FiftyFifty,
                                           !.percent_complete = Some(ONE \div 4)] >>,
      << Task_new(1, "a", MaxDur), [Task_new(MaxId, "b", 0) EXCEPT !.predecessors = <<1>>] >> }

ForeignFiles ==
    { JsonFile([metadata |-> ScheduleMetadata_default, tasks |-> tasks]) :
        tasks \in ForeignTaskLists }
    \cup
    \* the custom flag set, and no calendar
    { JsonFile([metadata |-> ScheduleMetadata_default, calendar_is_custom |-> TRUE,
                tasks |-> << Task_new(1, "a", MaxDur) >>]),
      CsvFile(<<[metadata_row(Schedule_new) EXCEPT
                   !.calendar_json = None,
                   !.calendar_is_custom = format_option_bool(Some(TRUE))],
                TaskCsvRecord_from(Task_new(1, "a", MaxDur))>>) }
    \cup
    { CsvFile(<<metadata_row(Schedule_new),
                TaskCsvRecord_from(Task_new(1, "a", MaxDur)),
                TaskCsvRecord_from(Task_new(1, "b", 0))>>),
      CsvFile(<<metadata_row(Schedule_new), metadata_row(Schedule_new),
                TaskCsvRecord_from(Task_new(1, "a", -1))>>),
      CsvFile(<<metadata_row(Schedule_new)>>),
      CsvFile(<<TaskCsvRecord_from(Task_new(1, "a", MaxDur))>>),
      CsvFile(<<metadata_row(Schedule_new),
                [TaskCsvRecord_from(Task_new(1, "a", MaxDur)) EXCEPT
                   !.early_start = <<"x">>]>>) }

\* A call of a persistence function: the Schedule the client holds after
\* it, what the call returned, and the file it leaves.
FileReturns(op, r, written) ==
    /\ df' = r.self.df
    /\ metadata' = r.self.metadata
    /\ calendar' = r.self.calendar
    /\ calendar_is_custom' = r.self.calendar_is_custom
    /\ ret' = Call(op, 0, None, r)
    /\ nops' = nops + 1
    /\ file' = written
    /\ http' = http
    /\ run' = run

\* A save: the file is written when the save succeeds.
Saved(op, saved) ==
    IF saved.err # "" THEN FileReturns(op, Err(Self, saved.err), file)
    ELSE FileReturns(op, Ok(Self), Unwrap(saved.value))

\* A load: the client holds the Schedule returned, and keeps the one it
\* has when the load returns an error.
Loaded(op, loaded) ==
    IF loaded.err # "" THEN FileReturns(op, Err(Self, loaded.err), file)
    ELSE FileReturns(op, Ok(loaded.self), file)

InitFiles ==
    /\ \E s \in {Schedule_new,
                  new_with_metadata_and_calendar(
                      ScheduleMetadata_default,
                      from_config(<<Mon, Tue, Wed, Thu, Sat>>, <<from_ymd(2025, 1, 2)>>))},
          tasks \in StoredBefore :
          /\ df = upsert_all(s, tasks).self.df
          /\ metadata = s.metadata
          /\ calendar = s.calendar
          /\ calendar_is_custom = s.calendar_is_custom
          /\ ret = IF tasks = <<>> THEN Call("new", 0, None, Ok(s))
                   ELSE Call("upsert_task_record", tasks[1].id, Some(tasks[1]),
                             upsert_all(s, tasks))
    /\ nops = 0
    /\ file = NoFile
    /\ http = NoServer
    /\ run = NoCall

UpsertFileTaskRecord ==
    /\ nops < MaxOps
    /\ \E task \in FileTaskInputs :
          Returns("upsert_task_record", task.id, Some(task), upsert_task_record(Self, task))

SaveScheduleToJson ==
    /\ nops < MaxOps
    /\ Saved("save_schedule_to_json", save_schedule_to_json(Self))

LoadScheduleFromJson ==
    /\ nops < MaxOps
    /\ Loaded("load_schedule_from_json", load_schedule_from_json(file))

SaveScheduleToCsv ==
    /\ nops < MaxOps
    /\ Saved("save_schedule_to_csv", save_schedule_to_csv(Self))

LoadScheduleFromCsv ==
    /\ nops < MaxOps
    /\ Loaded("load_schedule_from_csv", load_schedule_from_csv(file))

\* Another program writes the file.
WriteForeignFile ==
    /\ nops < MaxOps
    /\ \E written \in ForeignFiles :
          FileReturns("write_file", Ok(Self), written)

NextFiles ==
    \/ UpsertFileTaskRecord
    \/ Refresh
    \/ SaveScheduleToJson
    \/ LoadScheduleFromJson
    \/ SaveScheduleToCsv
    \/ LoadScheduleFromCsv
    \/ WriteForeignFile

SpecFiles == InitFiles /\ [][NextFiles]_vars

\* The task collection a loader reads from the file: the tasks of a JSON
\* document, the task rows of a CSV file when all of them convert; None
\* when the file is not of the loader's format or holds no task collection.
RECURSIVE rows_into_tasks(_)
rows_into_tasks(rows) ==
    IF rows = <<>> THEN Some(<<>>)
    ELSE IF is_metadata_row(Head(rows)) THEN rows_into_tasks(Tail(rows))
    ELSE IF into_task(Head(rows)).err # "" THEN None
    ELSE Bind(rows_into_tasks(Tail(rows)), LAMBDA rest :
           IF rest = None THEN None
           ELSE Some(<<into_task(Head(rows)).value>> \o Unwrap(rest)))

task_collection(loader, path) ==
    IF loader = "load_schedule_from_json" /\ path.format = "json"
    THEN Some(path.document.tasks)
    ELSE IF loader = "load_schedule_from_csv" /\ path.format = "csv"
    THEN rows_into_tasks(path.rows)
    ELSE None

Loaders == {"load_schedule_from_json", "load_schedule_from_csv"}

\* C24: when the task collection of the file fails validate_task_collection,
\* a loader returns an InvalidData error and no Schedule; and every Schedule
\* a loader returns has unique task ids and only tasks that pass
\* validate_task.
C24_LoadersValidateTasks ==
    [][ret'.op \in Loaders =>
          Bind(task_collection(ret'.op, file), LAMBDA tasks :
            /\ (tasks # None /\ validate_task_collection(Unwrap(tasks)) # "")
                 => /\ ret'.err \in
                          { InvalidData(validate_task_collection(Unwrap(tasks))),
                            InvalidData("CSV file contained multiple metadata rows") }
                    /\ ScheduleUnchanged
            /\ ret'.err = ""
                 => /\ \A i, j \in DOMAIN df' : df'[i].id = df'[j].id => i = j
                    /\ \A i \in DOMAIN df' : validate_task(df'[i]) = "")]_vars

\* A JSON file that holds a task id twice has been refused.
C24_Witness ==
    /\ ret.op = "load_schedule_from_json"
    /\ ret.err = InvalidData("duplicate task id")
    /\ file.format = "json"
    /\ \E i, j \in DOMAIN file.document.tasks :
          i # j /\ file.document.tasks[i].id = file.document.tasks[j].id

\* A save to one format followed at once by a load from the same format.
SavedThenLoaded(save, load) ==
    /\ ret.op = save
    /\ ret.err = ""
    /\ df # <<>>
    /\ validate_task_collection(df) = ""
    /\ ret'.op = load

\* The Schedule after the step has the metadata, the task list, the
\* calendar config and the calendar_is_custom flag of the one before.
SameSchedule ==
    /\ ret'.err = ""
    /\ metadata' = metadata
    /\ df' = df
    /\ to_config(calendar') = to_config(calendar)
    /\ calendar_is_custom' = calendar_is_custom

\* C25: for a Schedule of at least one task whose tasks pass validation,
\* save_schedule_to_json then load_schedule_from_json, and likewise the CSV
\* pair, give a Schedule with equal metadata, equal task list in every
\* field, equal calendar config and equal calendar_is_custom.
C25_SaveThenLoadRoundTrips ==
    [][(\/ SavedThenLoaded("save_schedule_to_json", "load_schedule_from_json")
        \/ SavedThenLoaded("save_schedule_to_csv", "load_schedule_from_csv"))
       => SameSchedule]_vars

(***************************************************************************)
(* The HTTP server (http_api): one Schedule behind a read-write lock, and  *)
(* the POST /tasks requests it serves, each on its own task.               *)
(***************************************************************************)
MaxRequests == 2

CREATED == 201
BAD_REQUEST == 400
CONFLICT == 409
INTERNAL_SERVER_ERROR == 500

Requests == 1..MaxRequests

\* The tasks the clients post: the name tells the requests apart.
PostedTasks ==
    { [Task_new(id, name, d) EXCEPT !.predecessors = p] :
        id \in TaskIds, name \in {"a", "b"}, d \in {-1, MaxDur}, p \in {<<>>, <<MaxId>>} }

\* A response: the status, and the Schedule the handler leaves.
Response(self, status) == [self |-> self, status |-> status]

\* The block of create_task under the write lock, without the look for the
\* id: the task is stored whether or not the id exists.
create_task_unchecked(self, task) ==
    Bind(Then(upsert_task_record(self, task), LAMBDA stored : refresh(stored)), LAMBDA r :
      IF r.err # "" THEN Response(r.self, BAD_REQUEST) ELSE Response(r.self, 0))

\* The block of create_task under the write lock: Conflict when the id
\* exists; else upsert_task_record and refresh, whose errors are Invalid.
\* Status 0 is no early return.
create_task(self, task) ==
    IF find_task(self.df, task.id) # None THEN Response(self, CONFLICT)
    ELSE Bind(Then(upsert_task_record(self, task), LAMBDA stored : refresh(stored)), LAMBDA r :
           IF r.err # "" THEN Response(r.self, BAD_REQUEST) ELSE Response(r.self, 0))

\* The block of create_task under the read lock.
created_task(self, task) ==
    IF find_task(self.df, task.id) = None THEN Response(self, INTERNAL_SERVER_ERROR)
    ELSE Response(self, CREATED)

\* A request at a point of its handler.
Request(pc, task, status) == [pc |-> pc, task |-> task, status |-> status]

InitHttp ==
    /\ \E s \in {Schedule_new, ShortProject},
          tasks \in { <<>>, <<Task_new(1, "a", MaxDur)>> } :
          /\ df = upsert_all(s, tasks).self.df
          /\ metadata = s.metadata
          /\ calendar = s.calendar
          /\ calendar_is_custom = s.calendar_is_custom
          /\ ret = IF tasks = <<>> THEN Call("new", 0, None, Ok(s))
                   ELSE Call("upsert_task_record", tasks[1].id, Some(tasks[1]),
                             upsert_all(s, tasks))
    /\ nops = 0
    /\ file = NoFile
    /\ http = [writer |-> 0,
               requests |-> [ r \in Requests |-> Request("idle", None, 0) ]]
    /\ run = NoCall

\* POST /tasks arrives with a task.
PostTask(r) ==
    /\ http.requests[r].pc = "idle"
    /\ \E task \in PostedTasks :
          http' = [http EXCEPT !.requests[r] = Request("write", Some(task), 0)]
    /\ UNCHANGED <<df, metadata, calendar, calendar_is_custom, ret, nops, file, run>>

\* schedule.write(): granted when no other request holds the write lock.
LockWrite(r) ==
    /\ http.requests[r].pc = "write"
    /\ http.writer = 0
    /\ http' = [http EXCEPT !.writer = r, !.requests[r].pc = "locked"]
    /\ UNCHANGED <<df, metadata, calendar, calendar_is_custom, ret, nops, file, run>>

\* The block under the write lock, to the drop of the guard: the request
\* answers at an early return, or goes on to read the task back.
CreateTask(r) ==
    /\ http.requests[r].pc = "locked"
    /\ http.writer = r
    /\ \E done \in {create_task(Self, Unwrap(http.requests[r].task))} :
          /\ df' = done.self.df
          /\ metadata' = done.self.metadata
          /\ calendar' = done.self.calendar
          /\ calendar_is_custom' = done.self.calendar_is_custom
          /\ http' = [http EXCEPT
                        !.writer = 0,
                        !.requests[r].pc = IF done.status = 0 THEN "read" ELSE "done",
                        !.requests[r].status = done.status]
    /\ UNCHANGED <<ret, nops, file, run>>

\* schedule.read() and find_task: the response.
ReadCreated(r) ==
    /\ http.requests[r].pc = "read"
    /\ http.writer = 0
    /\ http' = [http EXCEPT
                  !.requests[r].pc = "done",
                  !.requests[r].status =
                      created_task(Self, Unwrap(http.requests[r].task)).status]
    /\ UNCHANGED <<df, metadata, calendar, calendar_is_custom, ret, nops, file, run>>

NextHttp ==
    \E r \in Requests :
       \/ PostTask(r)
       \/ LockWrite(r)
       \/ CreateTask(r)
       \/ ReadCreated(r)

SpecHttp == InitHttp /\ [][NextHttp]_vars

\* Request r has answered with the status, on a task with the id.
Answered(server, r, status, id) ==
    /\ server.requests[r].pc = "done"
    /\ server.requests[r].status = status
    /\ Unwrap(server.requests[r].task).id = id

\* C26: POST /tasks with an id the table holds answers 409 Conflict and
\* leaves the Schedule as it was; of the POST /tasks requests with one id,
\* in any interleaving, at most one answers 201 Created, and the table never
\* holds two tasks with one id.
C26_CreateTaskRefusesExistingId ==
    [][/\ \A r \in Requests :
            (/\ http.requests[r].pc = "locked"
             /\ http'.requests[r].pc # "locked"
             /\ id_exists(df, Unwrap(http.requests[r].task).id))
            => /\ http'.requests[r].status = CONFLICT
               /\ ScheduleUnchanged
       /\ \A id \in TaskIds : \A r1, r2 \in Requests :
            (Answered(http', r1, CREATED, id) /\ Answered(http', r2, CREATED, id))
            => r1 = r2
       /\ \A i, j \in DOMAIN df' : df'[i].id = df'[j].id => i = j]_vars

\* Two requests with one id and two names have answered, one 201 Created
\* and the other 409 Conflict, and the table holds the task of the first.
C26_Witness ==
    /\ http.requests # <<>>
    /\ \E r1, r2 \in Requests :
          /\ Answered(http, r1, CREATED, MaxId)
          /\ Answered(http, r2, CONFLICT, MaxId)
          /\ Unwrap(http.requests[r1].task).name # Unwrap(http.requests[r2].task).name
          /\ find_task(df, MaxId) # None
          /\ Unwrap(find_task(df, MaxId)).name = Unwrap(http.requests[r1].task).name

\* A task with its early dates taken from another.
with_early_dates_of(task, other) ==
    [task EXCEPT !.early_start = other.early_start, !.early_finish = other.early_finish]

\* C27: a refresh that fails its pre-check (project start after project end)
\* changes no field of any task; a refresh that fails the horizon check
\* changes at most early_start and early_finish: every other field of every
\* task, the metadata and the calendar are as before the call.
C27_FailedRefreshKeepsLateFields ==
    [][ret'.op = "refresh" =>
          /\ ret'.err = StartEndError => df' = df
          /\ ret'.err = HorizonError =>
                /\ Len(df') = Len(df)
                /\ \A i \in DOMAIN df : with_early_dates_of(df'[i], df[i]) = df[i]
                /\ metadata' = metadata
                /\ calendar' = calendar
                /\ calendar_is_custom' = calendar_is_custom]_vars

\* A refresh has failed the horizon check on a table whose late dates were
\* computed before: a task's early_finish is now after its late_finish.
C27_Witness ==
    /\ ret.op = "refresh"
    /\ ret.err = HorizonError
    /\ \E i \in DOMAIN df :
          /\ IsSome(df[i].late_finish)
          /\ IsSome(df[i].total_float)
          /\ Unwrap(df[i].early_finish) > Unwrap(df[i].late_finish)

\* C28: after a successful refresh every task of duration >= 0 has
\* early_finish >= early_start and late_finish >= late_start, and a task of
\* duration 0 has early_finish = early_start and late_start = late_finish,
\* on every calendar.
C28_FinishNotBeforeStart ==
    [][(ret'.op = "refresh" /\ ret'.err = "") =>
          \A i \in DOMAIN df' :
             Bind(df'[i], LAMBDA t :
               t.duration_days >= 0 =>
                  /\ IsSome(t.early_start) /\ IsSome(t.early_finish)
                  /\ IsSome(t.late_start) /\ IsSome(t.late_finish)
                  /\ Unwrap(t.early_finish) >= Unwrap(t.early_start)
                  /\ Unwrap(t.late_finish) >= Unwrap(t.late_start)
                  /\ t.duration_days = 0 =>
                        /\ t.early_finish = t.early_start
                        /\ t.late_start = t.late_finish)]_vars

\* A refresh has succeeded on a table with a task of duration 0 and a longer
\* task whose finish dates are after its start dates.
C28_Witness ==
    /\ ret.op = "refresh"
    /\ ret.err = ""
    /\ \E i, j \in DOMAIN df :
          /\ df[i].duration_days = 0
          /\ df[i].late_start = df[i].late_finish
          /\ df[j].duration_days > 0
          /\ Unwrap(df[j].early_finish) > Unwrap(df[j].early_start)
          /\ Unwrap(df[j].late_finish) > Unwrap(df[j].late_start)

\* The predecessors of a task that are rows of the table.
existing_predecessors(table, t) ==
    { i \in DOMAIN table : table[i].id \in SeqToSet(t.predecessors) }

successors_in_table(table, t) ==
    { i \in DOMAIN table : t.id \in SeqToSet(table[i].predecessors) }

without_unknown_predecessors(self) ==
    [self EXCEPT !.df =
        [ i \in DOMAIN self.df |->
            [self.df[i] EXCEPT !.predecessors =
                SelectSeq(self.df[i].predecessors,
                          LAMBDA p : p \in ids_of(self.df))] ]]

\* What refresh computes for a row.
computed_fields(t) ==
    <<t.id, t.early_start, t.early_finish, t.late_start, t.late_finish,
      t.total_float, t.is_critical, t.successors>>

\* C31: a refresh returns the same result, and leaves the same early and
\* late dates, total_float, is_critical and successors in every row, as a
\* refresh of the table without the predecessor entries that name no row;
\* and after a successful refresh a task whose predecessor entries all name
\* no row starts on the project start.
C31_UnknownPredecessorsIgnored ==
    [][ret'.op = "refresh" =>
          Bind(refresh(without_unknown_predecessors(Self)), LAMBDA pruned :
            /\ ret'.err = pruned.err
            /\ DOMAIN df' = DOMAIN pruned.self.df
            /\ \A i \in DOMAIN df' :
                  computed_fields(df'[i]) = computed_fields(pruned.self.df[i])
            /\ ret'.err = "" =>
                  \A i \in DOMAIN df' :
                     SeqToSet(df'[i].predecessors) \cap ids_of(df') = {} =>
                        df'[i].early_start = Some(metadata'.project_start_date))]_vars

\* A refresh has succeeded on a table where a task has predecessor entries,
\* none of them names a row, and the task starts on the project start.
C31_Witness ==
    /\ ret.op = "refresh"
    /\ ret.err = ""
    /\ \E i \in DOMAIN df :
          /\ df[i].predecessors # <<>>
          /\ SeqToSet(df[i].predecessors) \cap ids_of(df) = {}
          /\ df[i].early_start = Some(metadata.project_start_date)

(***************************************************************************)
(* C32: a task starts after the day a predecessor finishes.                *)
(***************************************************************************)
\* C32: after a successful refresh, for every task and every one of its
\* predecessors that is a row of the table, the early_finish of the
\* predecessor is before the early_start of the task and the late_finish of
\* the predecessor is before the late_start of the task.
C32_StartsAfterPredecessorFinishes ==
    [][(ret'.op = "refresh" /\ ret'.err = "") =>
          \A j \in DOMAIN df' :
             \A i \in existing_predecessors(df', df'[j]) :
                /\ Unwrap(df'[i].early_finish) < Unwrap(df'[j].early_start)
                /\ Unwrap(df'[i].late_finish) < Unwrap(df'[j].late_start)]_vars

\* A refresh has succeeded on a table where a task of duration 0 has a
\* predecessor of duration 0 in the table: the task starts, early and late,
\* after the day its predecessor finishes.
C32_Witness ==
    /\ ret.op = "refresh"
    /\ ret.err = ""
    /\ \E i, j \in DOMAIN df :
          /\ df[i].id \in SeqToSet(df[j].predecessors)
          /\ df[i].duration_days = 0
          /\ df[j].duration_days = 0
          /\ Unwrap(df[i].early_finish) < Unwrap(df[j].early_start)
          /\ Unwrap(df[i].late_finish) < Unwrap(df[j].late_start)

(***************************************************************************)
(* A fourth client: one that takes over a Schedule that already holds      *)
(* tasks, changes them and deletes some.                                   *)
(***************************************************************************)
\* Schedule::new() after upsert_task(id, "b", 0, None) for each id of ids.
RECURSIVE with_tasks(_, _)
with_tasks(self, ids) ==
    IF ids = <<>> THEN self
    ELSE with_tasks(upsert_task(self, ids[1], "b", 0, None).self, Tail(ids))

Populated == { with_tasks(Schedule_new, ids) : ids \in {<<>>, <<1>>, <<1, 2>>, <<2, 1>>} }

InitDelete ==
    /\ \E s \in Populated :
          /\ df = s.df
          /\ metadata = s.metadata
          /\ calendar = s.calendar
          /\ calendar_is_custom = s.calendar_is_custom
    /\ ret = Call("new", 0, None, Ok(Self))
    /\ nops = 0
    /\ file = NoFile
    /\ http = NoServer
    /\ run = NoCall

NextDelete ==
    \/ UpsertTaskRecord
    \/ UpdateTaskDuration
    \/ DeleteTask
    \/ Refresh

SpecDelete == InitDelete /\ [][NextDelete]_vars

(***************************************************************************)
(* C33: delete_task and the other tasks.                                   *)
(***************************************************************************)
\* C33: whatever delete_task(id) returns, every task of the table with
\* another id is still in the table after the call.
C33_DeleteTaskKeepsOtherTasks ==
    [][ret'.op = "delete_task" =>
          \A id \in ids_of(df) \ {ret'.id} : id \in ids_of(df')]_vars

(***************************************************************************)
(* The HTTP server with its mutating routes together: POST /tasks,         *)
(* PUT /tasks/:id, DELETE /tasks/:id and PUT /metadata, served             *)
(* concurrently on the one shared Schedule.                                *)
(***************************************************************************)
OK == 200
NO_CONTENT == 204
NOT_FOUND == 404

\* The block of update_task under the write lock, after the comparison of
\* the payload's id with the path parameter.
update_task(self, task_id, task) ==
    IF task.id # task_id THEN Response(self, BAD_REQUEST)
    ELSE IF find_task(self.df, task_id) = None THEN Response(self, NOT_FOUND)
    ELSE Bind(Then(upsert_task_record(self, task), LAMBDA stored : refresh(stored)), LAMBDA r :
           IF r.err # "" THEN Response(r.self, BAD_REQUEST) ELSE Response(r.self, 0))

\* The delete_task handler: Schedule::delete_task under the write lock.
delete_task_handler(self, task_id) ==
    Bind(delete_task(self, task_id), LAMBDA r :
      IF r.err # "" THEN Response(r.self, BAD_REQUEST)
      ELSE IF ~r.value THEN Response(r.self, NOT_FOUND)
      ELSE Response(r.self, NO_CONTENT))

\* The block of update_metadata under the write lock.
update_metadata(self, md) ==
    Bind(Then(set_metadata(self, md), LAMBDA stored : refresh(stored)), LAMBDA r :
      IF r.err # "" THEN Response(r.self, BAD_REQUEST) ELSE Response(r.self, 0))

\* GET /tasks/:id.
get_task(self, task_id) ==
    IF find_task(self.df, task_id) = None THEN Response(self, NOT_FOUND)
    ELSE Response(self, OK)

\* What the clients send: the route, the id of the path (of the payload
\* for POST), and the payload.
ApiCalls ==
    { [route |-> "POST /tasks", id |-> task.id, payload |-> task] : task \in PostedTasks }
    \cup UNION { { [route |-> "PUT /tasks/:id", id |-> id, payload |-> task] :
                     id \in {1, task.id} } : task \in PostedTasks }
    \cup { [route |-> "DELETE /tasks/:id", id |-> id, payload |-> None] : id \in TaskIds }
    \cup { [route |-> "PUT /metadata", id |-> 0, payload |-> md] : md \in MetadataInputs }

\* The block of a handler under the write lock.
write_block(self, call) ==
    IF call.route = "POST /tasks" THEN create_task(self, call.payload)
    ELSE IF call.route = "PUT /tasks/:id" THEN update_task(self, call.id, call.payload)
    ELSE IF call.route = "DELETE /tasks/:id" THEN delete_task_handler(self, call.id)
    ELSE update_metadata(self, call.payload)

\* What a handler's write block has made of its subject: the task with the
\* id, or the metadata.
subject(self, call) ==
    IF call.route = "PUT /metadata" THEN Some(self.metadata)
    ELSE find_task(self.df, call.id)

\* The block of a handler under the read lock: the status and the body.
read_block(self, call) ==
    IF call.route = "PUT /metadata" THEN [status |-> OK, body |-> Some(self.metadata)]
    ELSE IF find_task(self.df, call.id) = None
    THEN [status |-> INTERNAL_SERVER_ERROR, body |-> None]
    ELSE [status |-> IF call.route = "POST /tasks" THEN CREATED ELSE OK,
          body |-> find_task(self.df, call.id)]

\* A request at a point of its handler: the call, the status it answered,
\* its subject as its own write block left it, and the body it answered.
ApiRequest(pc, call, status, own, body) ==
    [pc |-> pc, call |-> call, status |-> status, own |-> own, body |-> body]

InitApi ==
    /\ \E s \in {Schedule_new, ShortProject},
          tasks \in { <<>>, <<Task_new(1, "a", MaxDur)>> } :
          /\ df = upsert_all(s, tasks).self.df
          /\ metadata = s.metadata
          /\ calendar = s.calendar
          /\ calendar_is_custom = s.calendar_is_custom
          /\ ret = IF tasks = <<>> THEN Call("new", 0, None, Ok(s))
                   ELSE Call("upsert_task_record", tasks[1].id, Some(tasks[1]),
                             upsert_all(s, tasks))
    /\ nops = 0
    /\ file = NoFile
    /\ http = [writer |-> 0,
               requests |-> [ r \in Requests |-> ApiRequest("idle", None, 0, None, None) ]]
    /\ run = NoCall

\* A request arrives.
Arrive(r) ==
    /\ http.requests[r].pc = "idle"
    /\ \E call \in ApiCalls :
          http' = [http EXCEPT !.requests[r] = ApiRequest("write", Some(call), 0, None, None)]
    /\ UNCHANGED <<df, metadata, calendar, calendar_is_custom, ret, nops, file, run>>

\* The block under the write lock, to the drop of the guard: the request
\* answers at an early return (DELETE always does), or goes on to read its
\* subject back.
WriteBlock(r) ==
    /\ http.requests[r].pc = "locked"
    /\ http.writer = r
    /\ \E call \in {Unwrap(http.requests[r].call)} :
       \E done \in {write_block(Self, call)} :
          /\ df' = done.self.df
          /\ metadata' = done.self.metadata
          /\ calendar' = done.self.calendar
          /\ calendar_is_custom' = done.self.calendar_is_custom
          /\ http' = [http EXCEPT
                        !.writer = 0,
                        !.requests[r].pc = IF done.status = 0 THEN "read" ELSE "done",
                        !.requests[r].status = done.status,
                        !.requests[r].own =
                            IF done.status = 0 THEN subject(done.self, call) ELSE None]
    /\ UNCHANGED <<ret, nops, file, run>>

\* schedule.read(): the response.
ReadBlock(r) ==
    /\ http.requests[r].pc = "read"
    /\ http.writer = 0
    /\ \E answer \in {read_block(Self, Unwrap(http.requests[r].call))} :
          http' = [http EXCEPT !.requests[r].pc = "done",
                               !.requests[r].status = answer.status,
                               !.requests[r].body = answer.body]
    /\ UNCHANGED <<df, metadata, calendar, calendar_is_custom, ret, nops, file, run>>

NextApi ==
    \E r \in Requests :
       \/ Arrive(r)
       \/ LockWrite(r)
       \/ WriteBlock(r)
       \/ ReadBlock(r)

SpecApi == InitApi /\ [][NextApi]_vars

(***************************************************************************)
(* C34: POST /tasks among concurrent PUT and DELETE requests.              *)
(***************************************************************************)
\* C34: a POST /tasks whose block under the write lock stored and refreshed
\* its task answers 201 Created with the task as that block left it, and
\* not 500, when the other requests are DELETE /tasks/:id and PUT /tasks/:id
\* requests, in whatever order they ran.
C34_CreatedTaskIsOwn ==
    \A r \in Requests :
       (/\ http.requests[r].pc = "done"
        /\ http.requests[r].own # None
        /\ Unwrap(http.requests[r].call).route = "POST /tasks"
        /\ \A q \in Requests \ {r} :
              \/ http.requests[q].call = None
              \/ Unwrap(http.requests[q].call).route
                    \in {"DELETE /tasks/:id", "PUT /tasks/:id"})
       => /\ http.requests[r].status = CREATED
          /\ http.requests[r].body = http.requests[r].own

(***************************************************************************)
(* C35: an HTTP mutation answered with an error status.                    *)
(***************************************************************************)
\* C35: when the handler of POST /tasks, PUT /tasks/:id or PUT /metadata
\* answers 400, the task table and the metadata are as they were when the
\* handler took the write lock, and GET /tasks/:id of a task whose POST was
\* answered 400 answers 404.
C35_RejectedMutationChangesNothing ==
    [][\A r \in Requests :
          (/\ http.requests[r].pc = "locked"
           /\ http'.requests[r].pc = "done"
           /\ http'.requests[r].status = BAD_REQUEST
           /\ Unwrap(http.requests[r].call).route
                 \in {"POST /tasks", "PUT /tasks/:id", "PUT /metadata"})
          => /\ df' = df
             /\ metadata' = metadata
             /\ Unwrap(http.requests[r].call).route = "POST /tasks" =>
                   get_task(Self', Unwrap(http.requests[r].call).id).status = NOT_FOUND]_vars

(***************************************************************************)
(* C36: the calendar of a Schedule whose calendar is not custom.           *)
(***************************************************************************)
\* C36: in every state of a Schedule, when calendar_is_custom is false the
\* calendar is the default calendar (Saturday and Sunday non-working, the
\* US federal holidays) of the years from the year of project_start_date
\* to the year of project_end_date.
C36_DefaultCalendarFollowsMetadata ==
    ~calendar_is_custom =>
        calendar = with_year_range(year(metadata.project_start_date),
                                   year(metadata.project_end_date))

\* reset_calendar_to_default has succeeded on a Schedule with tasks: the
\* calendar is not custom and has the US federal holidays of 2025.
C36_Witness ==
    /\ ret.op = "reset_calendar_to_default"
    /\ ret.err = ""
    /\ df # <<>>
    /\ ~calendar_is_custom
    /\ calendar.holidays = us_holidays(2025)

(***************************************************************************)
(* C37: find_prev_available after find_next_available.                     *)
(***************************************************************************)
\* C37: for a calendar with at least one working weekday, a date d and
\* n >= 0, find_prev_available(find_next_available(d, n), n) = d.
C37_FindPrevInvertsFindNext ==
    (/\ ret.op = "find_next_available"
     /\ ret.err = ""
     /\ has_working_weekday(calendar))
    => find_prev_available(calendar, ret.value, Unwrap(ret.arg)[2]) = Unwrap(ret.arg)[1]

(***************************************************************************)
(* C38: schedule_variance_days and the variance counts of the summary.     *)
(***************************************************************************)
\* The signed working-day difference of section 4.5: the available days of
\* the inclusive range from the earlier to the later date, less one,
\* negated when the actual date precedes the baseline; 0 for equal dates.
signed_difference(cal, baseline, actual) ==
    LET earlier == Min({baseline, actual})
        later == Max({baseline, actual})
        days == Cardinality({ d \in earlier..later : is_available(cal, d) }) - 1
    IN  IF actual = baseline THEN 0 ELSE IF actual > baseline THEN days ELSE -days

\* The variance a refresh is to leave in a row.
expected_variance(cal, t) ==
    IF IsSome(t.baseline_finish) /\ IsSome(t.actual_finish)
    THEN Some(signed_difference(cal, Unwrap(t.baseline_finish), Unwrap(t.actual_finish)))
    ELSE IF IsSome(t.baseline_start) /\ IsSome(t.actual_start)
    THEN Some(signed_difference(cal, Unwrap(t.baseline_start), Unwrap(t.actual_start)))
    ELSE None

\* The rows whose variance is set and has the sign.
rows_with_variance(table, sign) ==
    { i \in DOMAIN table : /\ IsSome(table[i].schedule_variance_days)
                            /\ Sign(Unwrap(table[i].schedule_variance_days)) = sign }

\* C38: after a successful refresh every task's schedule_variance_days is
\* the signed working-day difference of its finish pair when both finish
\* dates are set, else of its start pair when both start dates are set,
\* else null, whatever the row held before; and the positive, negative and
\* on-track counts of the summary count the rows with a variance above,
\* below and equal to 0, so that they add up to the rows with a variance.
C38_VarianceFromFinishElseStart ==
    [][(ret'.op = "refresh" /\ ret'.err = "") =>
          /\ \A i \in DOMAIN df' :
                df'[i].schedule_variance_days = expected_variance(calendar', df'[i])
          /\ ret'.value.positive_variance_count = Cardinality(rows_with_variance(df', 1))
          /\ ret'.value.negative_variance_count = Cardinality(rows_with_variance(df', -1))
          /\ ret'.value.on_track_variance_count = Cardinality(rows_with_variance(df', 0))
          /\ ret'.value.positive_variance_count + ret'.value.negative_variance_count
                + ret'.value.on_track_variance_count
             = Cardinality({ i \in DOMAIN df' : IsSome(df'[i].schedule_variance_days) })]_vars

\* A refresh has succeeded on a table of two tasks: one carries both pairs,
\* its start pair going back and its finish pair forward over a weekend,
\* and its variance is that of the finish pair, 0, not the one it was
\* stored with; the other has no pair and no variance; the summary counts
\* one task on track.
C38_Witness ==
    /\ ret.op = "refresh"
    /\ ret.err = ""
    /\ Len(df) = 2
    /\ \E i, j \in DOMAIN df :
          /\ IsSome(df[i].baseline_start) /\ IsSome(df[i].actual_start)
          /\ Unwrap(df[i].actual_start) < Unwrap(df[i].baseline_start)
          /\ IsSome(df[i].baseline_finish) /\ IsSome(df[i].actual_finish)
          /\ Unwrap(df[i].actual_finish) > Unwrap(df[i].baseline_finish)
          /\ df[i].schedule_variance_days = Some(0)
          /\ df[j].schedule_variance_days = None
    /\ ret.value.on_track_variance_count = 1
    /\ ret.value.positive_variance_count = 0
    /\ ret.value.negative_variance_count = 0

(***************************************************************************)
(* C39: the calendar of a loaded Schedule.                                 *)
(***************************************************************************)
\* The file carries a calendar config: the calendar key of the JSON
\* document, the calendar_json cell of the metadata row of a CSV file.
carries_calendar_config(path) ==
    IF path.format = "json"
    THEN "calendar" \in DOMAIN path.document /\ path.document.calendar # None
    ELSE \E i \in DOMAIN path.rows :
            is_metadata_row(path.rows[i]) /\ path.rows[i].calendar_json # None

\* C39: a Schedule loaded by the JSON or the CSV loader from a file that
\* carries no calendar config has the default calendar of the years of its
\* metadata and calendar_is_custom false; calendar_is_custom is true only
\* when the file carried a calendar config.
C39_LoadedCalendarDefaultsWithoutConfig ==
    [][(ret'.op \in Loaders /\ ret'.err = "") =>
          /\ ~carries_calendar_config(file) =>
                /\ calendar' = with_year_range(year(metadata'.project_start_date),
                                               year(metadata'.project_end_date))
                /\ ~calendar_is_custom'
          /\ calendar_is_custom' => carries_calendar_config(file)]_vars

(***************************************************************************)
(* A refresh followed through its first calendar search.  The searches of  *)
(* WorkCalendar are loops that step one day at a time; here the first one  *)
(* a refresh runs is stepped day by day, from the call to its return.      *)
(***************************************************************************)
MaxSearchDays == 10

\* The last date: stepping past it overflows the date arithmetic, which
\* panics (NaiveDate::MAX, brought near).
LastDate == from_ymd(2025, 1, 1) + MaxSearchDays

\* The tables: empty, a task that takes no day, a task that takes a day, a
\* chain of tasks that take no day, a task that precedes itself.
RunTables ==
    { <<>>,
      << Task_new(1, "a", 0) >>,
      << Task_new(1, "a", MaxDur) >>,
      << Task_new(1, "a", 0), [Task_new(MaxId, "a", 0) EXCEPT !.predecessors = <<1>>] >>,
      << [Task_new(1, "a", MaxDur) EXCEPT !.predecessors = <<1>>] >> }

\* Calendars as a client builds them before it installs one: the default
\* one, one from a config, and the default one after set_working_days.
RunCalendars ==
    { with_year_range(2025, 2025), from_config(ALL_WEEKDAYS, <<from_ymd(2025, 1, 2)>>) }
    \cup { set_working_days(with_year_range(2025, 2025), w) : w \in {<<>>, <<Sat>>} }

\* refresh reaches a calendar search: the dates are in order, the graph has
\* no cycle, and a task takes a day or follows another (forward_pass is
\* the first to search, from project_start_date).
searches(self) ==
    /\ self.metadata.project_start_date <= self.metadata.project_end_date
    /\ toposort(ScheduleDag_build(self.df)) # None
    /\ \E i \in DOMAIN self.df :
          \/ self.df[i].duration_days > 0
          \/ existing_predecessors(self.df, self.df[i]) # {}

\* What a call returned, with Ok(_) told by value alone: whether it is Ok.
Outcome(r) == [r EXCEPT !.value = (r.err = "")]

\* A call that runs refresh: it returns at once when refresh reaches no
\* search, and else enters the search loop at project_start_date.
Begins(op, arg, self, returned) ==
    IF searches(self)
    THEN /\ df' = self.df
         /\ metadata' = self.metadata
         /\ calendar' = self.calendar
         /\ calendar_is_custom' = self.calendar_is_custom
         /\ run' = [pc |-> "searching", op |-> op, arg |-> arg,
                    current |-> self.metadata.project_start_date]
         /\ nops' = nops + 1
         /\ UNCHANGED <<ret, file, http>>
    ELSE /\ df' = returned.self.df
         /\ metadata' = returned.self.metadata
         /\ calendar' = returned.self.calendar
         /\ calendar_is_custom' = returned.self.calendar_is_custom
         /\ ret' = Call(op, 0, arg, Outcome(returned))
         /\ run' = [pc |-> "returned"]
         /\ nops' = nops + 1
         /\ UNCHANGED <<file, http>>

InitRun ==
    /\ \E tasks \in RunTables :
          /\ df = upsert_all(Schedule_new, tasks).self.df
          /\ metadata = Schedule_new.metadata
          /\ calendar = Schedule_new.calendar
          /\ calendar_is_custom = FALSE
    /\ ret = Call("new", 0, None, Outcome(Ok(Self)))
    /\ nops = 0
    /\ file = NoFile
    /\ http = NoServer
    /\ run = NoCall

\* Schedule::refresh is called.
CallRefresh ==
    /\ nops < MaxOps
    /\ run.pc \in {"idle", "returned"}
    /\ Begins("refresh", None, Self, refresh(Self))

\* Schedule::set_calendar is called: the calendar is installed, and
\* refresh runs when the table has a task.
CallSetCalendar ==
    /\ nops < MaxOps
    /\ run.pc \in {"idle", "returned"}
    /\ \E cal \in RunCalendars :
          IF height(df) = 0
          THEN /\ calendar' = cal
               /\ calendar_is_custom' = TRUE
               /\ ret' = Call("set_calendar", 0, Some(cal), Outcome(Ok(Self)))
               /\ run' = [pc |-> "returned"]
               /\ nops' = nops + 1
               /\ UNCHANGED <<df, metadata, file, http>>
          ELSE \E installed \in {[Self EXCEPT !.calendar = cal, !.calendar_is_custom = TRUE]} :
                  Begins("set_calendar", Some(cal), installed,
                         IF searches(installed) THEN Ok(installed)
                         ELSE set_calendar(Self, cal))

\* The loop of next_available / find_next_available: one day on, the day
\* is not available.
StepDay ==
    /\ run.pc = "searching"
    /\ run.current < LastDate
    /\ ~is_available(calendar, run.current + 1)
    /\ run' = [run EXCEPT !.current = run.current + 1]
    /\ UNCHANGED <<df, metadata, calendar, calendar_is_custom, ret, nops, file, http>>

\* One day on, the day is available: the calendar has a working weekday,
\* so this search and the later ones of the refresh end, and the call
\* returns what refresh returns.
FindDay ==
    /\ run.pc = "searching"
    /\ run.current < LastDate
    /\ is_available(calendar, run.current + 1)
    /\ run' = [pc |-> "returned"]
    /\ \E r \in {refresh(Self)} :
          /\ df' = r.self.df
          /\ ret' = Call(run.op, 0, run.arg, Outcome(r))
    /\ UNCHANGED <<metadata, calendar, calendar_is_custom, nops, file, http>>

\* One day on from the last date: the addition overflows and panics; the
\* call returns nothing.
Overflow ==
    /\ run.pc = "searching"
    /\ run.current = LastDate
    /\ run' = [pc |-> "panicked"]
    /\ UNCHANGED <<df, metadata, calendar, calendar_is_custom, ret, nops, file, http>>

NextRun ==
    \/ CallRefresh
    \/ CallSetCalendar
    \/ StepDay
    \/ FindDay
    \/ Overflow

\* The thread that runs the call keeps running it (each of its steps
\* changes run).
SpecRun == InitRun /\ [][NextRun]_vars /\ WF_run(StepDay \/ FindDay \/ Overflow)

(***************************************************************************)
(* C40: refresh runs to completion.                                        *)
(***************************************************************************)
\* C40: every refresh that has begun, by a call of refresh or inside
\* set_calendar, on a table with or without a cycle and a calendar built
\* through the public constructors and mutators, eventually returns a
\* summary or an error.
C40_RefreshReturns == (run.pc = "searching") ~> (run.pc = "returned")

====
